---------------------------- MODULE Spec2Model ----------------------------
(***************************************************************************)
(* A model of the sandbox execution engine of mcp-pyodide: the session     *)
(* registry, the per-session runtime (initialize, mountDirectory,          *)
(* executePython), the worker-per-call executor (runCode and the worker    *)
(* script) and the tool-call handler.                                      *)
(*                                                                         *)
(* Text is modelled as sequences of one-character strings, so that the     *)
(* code's substring tests, its regular expression and path.resolve are     *)
(* computed character by character.                                        *)
(***************************************************************************)
EXTENDS Integers, Sequences, FiniteSets, TLC

VARIABLES
  cwd,        \* working directory of the host process (an absolute path)
  hostDirs,   \* directories that exist on the host file system
  instances,  \* PyodideManager.instances: session id -> manager object
  mgr,        \* manager objects: object identity -> fields
  calls,      \* tool calls / runCode calls with their workers
  last        \* the last host-side operation that returned, with its result

vars == <<cwd, hostDirs, instances, mgr, calls, last>>

Null == "null"

----------------------------------------------------------------------------
(* Text *)

StartsWith(s, p) ==
  Len(s) >= Len(p) /\ SubSeq(s, 1, Len(p)) = p

\* String.prototype.includes
Includes(s, p) ==
  \E i \in 1..(Len(s) + 1) :
    i + Len(p) - 1 <= Len(s) /\ SubSeq(s, i, i + Len(p) - 1) = p

Slash == <<"/">>

\* s.split("/")
RECURSIVE SplitFrom(_, _, _)
SplitFrom(s, i, cur) ==
  IF i > Len(s) THEN <<cur>>
  ELSE IF s[i] = "/" THEN <<cur>> \o SplitFrom(s, i + 1, <<>>)
  ELSE SplitFrom(s, i + 1, Append(cur, s[i]))

Split(s) == SplitFrom(s, 1, <<>>)

\* Segment-wise normalisation done by path.resolve: "" and "." are dropped,
\* ".." removes the segment before it (and nothing at the root).
RECURSIVE NormSegs(_, _)
NormSegs(segs, acc) ==
  IF segs = <<>> THEN acc
  ELSE LET h == Head(segs) t == Tail(segs) IN
    IF h = <<>> \/ h = <<".">> THEN NormSegs(t, acc)
    ELSE IF h = <<".", ".">>
      THEN NormSegs(t, IF acc = <<>> THEN acc ELSE SubSeq(acc, 1, Len(acc) - 1))
    ELSE NormSegs(t, Append(acc, h))

RECURSIVE JoinSegs(_)
JoinSegs(segs) ==
  IF segs = <<>> THEN <<>> ELSE Slash \o Head(segs) \o JoinSegs(Tail(segs))

\* The absolute path made of the given segments.
AbsPath(segs) == IF segs = <<>> THEN Slash ELSE JoinSegs(segs)

\* path.resolve(p) in a process whose working directory is wd.
pathResolve(wd, p) ==
  AbsPath(NormSegs(Split(IF StartsWith(p, Slash) THEN p ELSE wd \o Slash \o p), <<>>))

\* The segments of a path once normalised.
Segs(p) == NormSegs(Split(p), <<>>)

IsPrefix(a, b) == Len(a) <= Len(b) /\ SubSeq(b, 1, Len(a)) = a

\* Directory p is dir itself or lies below it.
Inside(p, dir) == IsPrefix(Segs(dir), Segs(p))

\* The directories mkdir -p creates for an absolute path.
Ancestors(p) == { AbsPath(SubSeq(Segs(p), 1, k)) : k \in 1..Len(Segs(p)) }

\* Body at the value of v, which is computed once.
With(v, Body(_)) == CHOOSE y \in {Body(x) : x \in {v}} : TRUE

----------------------------------------------------------------------------
(* Session identifiers and the host environment *)

SidA == <<"a">>
SidB == <<"b">>
SidNested == <<"a", "/", "b">>
SidEscape == <<".", ".", "/", "x">>
SidEmpty == <<>>

\* Session ids are opaque strings supplied by the client.
SessionIds == {SidA, SidB, SidNested, SidEscape}

\* The directory the server is started in.
CwdSrv == <<"/", "s", "r", "v">>

----------------------------------------------------------------------------
(* Results handed to the caller *)

\* A tool result: a content object ({content: [{type: "text", text}]}, with
\* isError set on the error form) or, where the code lets one through, a
\* bare JavaScript Error object.
Content(isError, text) == [type |-> "content", isError |-> isError, text |-> text]

JsError(message) == [type |-> "Error", isError |-> FALSE, text |-> message]

NoResult == [type |-> Null, isError |-> FALSE, text |-> <<>>]

\* formatCallToolError(error): the error content object carrying the message.
formatCallToolError(message) == Content(TRUE, message)

\* formatCallToolSuccess(text): the success content object.
formatCallToolSuccess(text) == Content(FALSE, text)

IsContent(r) == r.type = "content"

----------------------------------------------------------------------------
(* Observation of the last operation *)

NoObj == <<<<>>, 0>>

\* `ret` is the value of an operation that returns a boolean, `result` that
\* of one that returns a tool result; getInstance returns `obj`.
NoLast ==
  [op |-> Null, sid |-> <<>>, obj |-> NoObj, name |-> <<>>, hostPath |-> <<>>,
   code |-> <<>>, ret |-> FALSE, result |-> NoResult, note |-> Null, ran |-> 0,
   run |-> Null, worker |-> Null, crashed |-> FALSE, slot |-> 0, loads |-> 0]

Observe(op, sid, obj, ret) ==
  [NoLast EXCEPT !.op = op, !.sid = sid, !.obj = obj, !.ret = ret]

ObserveResult(op, sid, obj, result) ==
  [NoLast EXCEPT !.op = op, !.sid = sid, !.obj = obj, !.result = result]

----------------------------------------------------------------------------
(* PyodideManager: construction and the session registry *)

\* The standard-library primitives the bootstrap script replaces.
Prims ==
  {"urllib.request.urlopen", "socket.create_connection", "socket.socket",
   "socket.gethostbyname"}

\* `private pyodide: PyodideInterface | null = null`: the null handle.
NoPy ==
  [id |-> NoObj, js |-> Null, attrs |-> [p \in Prims |-> Null], globals |-> {},
   fsDirs |-> {}, binds |-> {}, fcwd |-> <<>>]

\* A manager that comes with an interpreter nobody has set up.
NewManagerLoaded(sessionId) ==
  [sessionId |-> sessionId,
   pyodide |-> [id |-> <<sessionId, 0>>, js |-> "bound",
                attrs |-> [p \in Prims |-> "original"], globals |-> {},
                fsDirs |-> {}, binds |-> {}, fcwd |-> <<"/">>],
   mountPoints |-> {}, loads |-> 0, ready |-> FALSE]

\* new PyodideManager(sessionId). `loads` counts the interpreters this
\* object has been given, which names each of them; `ready` records that
\* initialize has returned true on this object.
NewManager(sessionId) ==
  [sessionId |-> sessionId, pyodide |-> NoPy, mountPoints |-> {}, loads |-> 0,
   ready |-> FALSE]

\* The identity of the next object constructed for a session id: the id and
\* the number of the construction.
FreshObj(sessionId) ==
  <<sessionId, 1 + Cardinality({o \in DOMAIN mgr : o[1] = sessionId})>>

\* PyodideManager.setInstance(sessionId, instance)
setInstance(map, sessionId, obj) ==
  [s \in DOMAIN map \cup {sessionId} |-> IF s = sessionId THEN obj ELSE map[s]]

\* A manager is constructed on every call.
getInstanceCreatesAlways(map, sessionId) == TRUE

\* `!PyodideManager.instances.has(sessionId)`: getInstance constructs an
\* object only for an id the map does not hold.
getInstanceCreates(map, sessionId) == sessionId \notin DOMAIN map

\* PyodideManager.getInstance(sessionId): the registry after the call.
getInstance(map, sessionId, fresh) ==
  IF getInstanceCreates(map, sessionId) THEN setInstance(map, sessionId, fresh) ELSE map

GetInstance(s) ==
  /\ instances' = getInstance(instances, s, FreshObj(s))
  /\ IF getInstanceCreates(instances, s)
       THEN mgr' = [o \in DOMAIN mgr \cup {FreshObj(s)} |->
                      IF o = FreshObj(s) THEN NewManager(s) ELSE mgr[o]]
       ELSE UNCHANGED mgr
  /\ last' = [Observe("getInstance", s, instances'[s], TRUE)
                EXCEPT !.note = IF getInstanceCreates(instances, s) THEN "created" ELSE "found"]
  /\ UNCHANGED <<cwd, hostDirs, calls>>

EmptyMap == [x \in {} |-> 0]

\* The process after start-up: nothing constructed, nothing mounted.
InitCommon ==
  /\ cwd = CwdSrv
  /\ hostDirs = {}
  /\ instances = EmptyMap
  /\ mgr = EmptyMap
  /\ calls = EmptyMap
  /\ last = NoLast

----------------------------------------------------------------------------
(* The registry alone *)

RegistrySessionIds == SessionIds \cup {SidEmpty}

NextRegistry == \E s \in RegistrySessionIds : GetInstance(s)

SpecRegistry == InitCommon /\ [][NextRegistry]_vars

\* C10: getInstance returns the instance registered for the id, distinct ids
\* have distinct instances, and an entry once created is never removed or
\* replaced, so every call for an id returns what the first call returned.
C10_RegistryIdempotent ==
  /\ [](last.op = "getInstance" =>
         (last.sid \in DOMAIN instances /\ last.obj = instances[last.sid]))
  /\ [](\A s1, s2 \in DOMAIN instances : s1 # s2 => instances[s1] # instances[s2])
  /\ [][\A s \in DOMAIN instances :
          s \in DOMAIN instances' /\ instances'[s] = instances[s]]_vars

C10_Witness ==
  /\ last.op = "getInstance"
  /\ last.note = "found"
  /\ Cardinality(DOMAIN instances) >= 2
  /\ last.obj = instances[last.sid]

----------------------------------------------------------------------------
(* The embedded interpreter *)

TmpDir == <<"/", "t", "m", "p">>

\* What loadPyodide resolves to: a new interpreter with the standard library
\* as shipped, the host bridge still bound and an empty sandbox file system.
loadPyodide(id) ==
  [id |-> id,
   js |-> "bound",
   attrs |-> [p \in Prims |-> "original"],
   globals |-> {},
   fsDirs |-> {},
   binds |-> {},
   fcwd |-> Slash]

\* this.pyodide.globals.set("js", undefined)
eraseJs(py) == [py EXCEPT !.js = "undefined"]

\* The bootstrap script: every network primitive is rebound to a function
\* that raises RuntimeError("Network access disabled").
bootstrap(py) == [py EXCEPT !.attrs = [p \in Prims |-> "blocked"]]

\* FS.mkdirTree(path) inside the sandbox.
mkdirTree(py, path) == [py EXCEPT !.fsDirs = @ \cup {path}]

----------------------------------------------------------------------------
(* initialize(packageCacheDir) *)

SetMgr(o, m) == [mgr EXCEPT ![o] = m]

\* The step of initialize that throws, if any; every throw is caught and
\* initialize returns false.
InitOutcomes == {"loadFails", "eraseFails", "bootstrapFails", "mkdirFails", "ok"}

\* `if (this.pyodide)`: the guard at the top of initialize.
alreadyInitializedNever(m) == FALSE

alreadyInitialized(m) == m.pyodide # NoPy

\* initialize: the manager and the result. The handle is assigned as soon as
\* loadPyodide resolves, before the steps that may still fail.
initialize(m, outcome) ==
  LET py0 == loadPyodide(<<m.sessionId, m.loads + 1>>)
      loaded == [m EXCEPT !.loads = @ + 1]
  IN
  IF alreadyInitialized(m) THEN [m |-> [m EXCEPT !.ready = TRUE], ret |-> TRUE]
  ELSE IF outcome = "loadFails" THEN [m |-> m, ret |-> FALSE]
  ELSE IF outcome = "eraseFails"
    THEN [m |-> [loaded EXCEPT !.pyodide = py0], ret |-> FALSE]
  ELSE IF outcome = "bootstrapFails"
    THEN [m |-> [loaded EXCEPT !.pyodide = eraseJs(py0)], ret |-> FALSE]
  ELSE IF outcome = "mkdirFails"
    THEN [m |-> [loaded EXCEPT !.pyodide = bootstrap(eraseJs(py0))], ret |-> FALSE]
  ELSE [m |-> [loaded EXCEPT !.pyodide = mkdirTree(bootstrap(eraseJs(py0)), TmpDir),
                            !.ready = TRUE],
        ret |-> TRUE]

Initialize(o, outcome) ==
  /\ o \in DOMAIN mgr
  /\ LET r == initialize(mgr[o], outcome) IN
     /\ mgr' = SetMgr(o, r.m)
     /\ last' = [Observe("initialize", mgr[o].sessionId, o, r.ret)
                   EXCEPT !.note = IF alreadyInitialized(mgr[o]) THEN "guard" ELSE Null]
  /\ UNCHANGED <<cwd, hostDirs, instances, calls>>

----------------------------------------------------------------------------
(* mountDirectory *)


basePath == <<"/", "w", "o", "r", "k", "s", "p", "a", "c", "e">>
hostPath == <<"w", "o", "r", "k", "s", "p", "a", "c", "e">>

\* /^\/etc|\/root|\.\.\/?/.test(s): the first alternative is anchored, the
\* other two match anywhere, and the slash after the dots is optional.
regexCheck(s) ==
  \/ StartsWith(s, <<"/", "e", "t", "c">>)
  \/ Includes(s, <<"/", "r", "o", "o", "t">>)
  \/ Includes(s, <<".", ".">>)

\* The test is made on the resolved path only.
mountRejectsResolvedOnly(abs, base) == regexCheck(abs)

\* The condition under which mountDirectory throws "Mounting restricted
\* paths not allowed".
mountRejects(abs, base) == regexCheck(abs) \/ regexCheck(base)

\* getSessionMountPoint(): `${this.basePath}/${this.sessionId}`
getSessionMountPoint(m) == basePath \o Slash \o m.sessionId

\* path.resolve(`${this.hostPath}/${this.sessionId}`)
absolutePathWithSessionId(wd, m) == pathResolve(wd, hostPath \o Slash \o m.sessionId)

\* The sandbox file-system call of mountDirectory that throws, if any.
FsFailPoints == {"none", "mkdirTree", "mount", "chdir"}

\* FS.mount(NODEFS, {root}, mountPoint)
fsMount(py, root, mountPoint) ==
  [py EXCEPT !.binds = @ \cup {[mountPoint |-> mountPoint, root |-> root]}]

\* FS.chdir(mountPoint)
chdir(py, mountPoint) == [py EXCEPT !.fcwd = mountPoint]

\* mountDirectory(): the manager, the host directories and the result. Every
\* throw is caught and turned into false; what was done before it stays.
mountDirectory(m, wd, hd, hostFail, fsFail) ==
  LET abs == absolutePathWithSessionId(wd, m)
      mp == getSessionMountPoint(m)
      hd2 == hd \cup Ancestors(abs)
      py1 == mkdirTree(m.pyodide, mp)
      py2 == fsMount(py1, abs, mp)
      py3 == chdir(py2, mp)
  IN
  IF m.pyodide = NoPy THEN [m |-> m, hd |-> hd, ret |-> FALSE]
  ELSE IF mountRejects(abs, hostPath) THEN [m |-> m, hd |-> hd, ret |-> FALSE]
  ELSE IF abs \notin hd /\ hostFail THEN [m |-> m, hd |-> hd, ret |-> FALSE]
  ELSE IF fsFail = "mkdirTree" THEN [m |-> m, hd |-> hd2, ret |-> FALSE]
  ELSE IF fsFail = "mount"
    THEN [m |-> [m EXCEPT !.pyodide = py1], hd |-> hd2, ret |-> FALSE]
  ELSE IF fsFail = "chdir"
    THEN [m |-> [m EXCEPT !.pyodide = py2], hd |-> hd2, ret |-> FALSE]
  ELSE [m |-> [m EXCEPT !.pyodide = py3], hd |-> hd2, ret |-> TRUE]

MountDirectory(o, hostFail, fsFail) ==
  /\ o \in DOMAIN mgr
  /\ LET r == mountDirectory(mgr[o], cwd, hostDirs, hostFail, fsFail) IN
     /\ mgr' = SetMgr(o, r.m)
     /\ hostDirs' = r.hd
     /\ last' = Observe("mountDirectory", mgr[o].sessionId, o, r.ret)
  /\ UNCHANGED <<cwd, instances, calls>>

MountSessionIds == {SidA, SidNested, SidEscape}

NextMount ==
  \/ \E s \in MountSessionIds : GetInstance(s)
  \/ \E o \in DOMAIN mgr, outcome \in {"loadFails", "ok"} : Initialize(o, outcome)
  \/ \E o \in DOMAIN mgr, hostFail \in BOOLEAN, fsFail \in FsFailPoints :
       MountDirectory(o, hostFail, fsFail)

SpecMount == InitCommon /\ [][NextMount]_vars


\* C1: for any two distinct session ids, the sandbox mount paths and the host
\* directories bound for them are different and neither lies inside the other.
C1_CrossSessionIsolation ==
  \A o1, o2 \in DOMAIN mgr :
    mgr[o1].sessionId # mgr[o2].sessionId =>
      \A b1 \in mgr[o1].pyodide.binds, b2 \in mgr[o2].pyodide.binds :
        /\ ~Inside(b1.root, b2.root)
        /\ ~Inside(b1.mountPoint, b2.mountPoint)

\* C2: every host directory mountDirectory binds lies inside the host base
\* directory, and a session id whose derived path leaves the base makes
\* mountDirectory return false.
C2_TraversalRejected ==
  /\ \A o \in DOMAIN mgr : \A b \in mgr[o].pyodide.binds :
       Inside(b.root, pathResolve(cwd, hostPath))
  /\ (last.op = "mountDirectory"
        /\ ~Inside(absolutePathWithSessionId(cwd, mgr[last.obj]), pathResolve(cwd, hostPath)))
       => last.ret = FALSE

----------------------------------------------------------------------------
(* mountDirectory(name, hostPath): the variant that takes the host path    *)
(* as an argument and keeps a mount table                                  *)

basePathMnt == <<"/", "m", "n", "t">>

\* getSessionMountPoint(path): `${this.basePath}/${this.sessionId}/${path}`
getSessionMountPointAt(m, path) == basePathMnt \o Slash \o m.sessionId \o Slash \o path

\* this.mountPoints.set(mountPoint, {hostPath, mountPoint})
setMountPoint(m, abs, mp) ==
  [m EXCEPT !.mountPoints = {e \in @ : e.mountPoint # mp}
                              \cup {[mountPoint |-> mp, hostPath |-> abs]}]

mountDirectoryAt(m, wd, hd, name, hostPathArg, hostFail, fsFail) ==
  LET abs == pathResolve(wd, hostPathArg \o Slash \o m.sessionId)
      mp == getSessionMountPointAt(m, name)
      hd2 == hd \cup Ancestors(abs)
      py1 == mkdirTree(m.pyodide, mp)
      py2 == fsMount(py1, abs, mp)
  IN
  IF m.pyodide = NoPy THEN [m |-> m, hd |-> hd, ret |-> FALSE]
  ELSE IF mountRejects(abs, hostPathArg) THEN [m |-> m, hd |-> hd, ret |-> FALSE]
  ELSE IF abs \notin hd /\ hostFail THEN [m |-> m, hd |-> hd, ret |-> FALSE]
  ELSE IF fsFail = "mkdirTree" THEN [m |-> m, hd |-> hd2, ret |-> FALSE]
  ELSE IF fsFail = "mount"
    THEN [m |-> [m EXCEPT !.pyodide = py1], hd |-> hd2, ret |-> FALSE]
  ELSE [m |-> setMountPoint([m EXCEPT !.pyodide = py2], abs, mp), hd |-> hd2,
        ret |-> TRUE]

MountDirectoryAt(o, name, hostPathArg, hostFail, fsFail) ==
  /\ o \in DOMAIN mgr
  /\ LET r == mountDirectoryAt(mgr[o], cwd, hostDirs, name, hostPathArg, hostFail, fsFail) IN
     /\ mgr' = SetMgr(o, r.m)
     /\ hostDirs' = r.hd
     /\ last' = [Observe("mountDirectoryAt", mgr[o].sessionId, o, r.ret)
                   EXCEPT !.name = name, !.hostPath = hostPathArg]
  /\ UNCHANGED <<cwd, instances, calls>>

PathRoot == <<"/", "r", "o", "o", "t">>
PathEtc == <<"/", "e", "t", "c">>
PathUp == <<".", ".", "/">>
PathData == <<"d", "a", "t", "a">>
PathRootfs == <<"/", "s", "r", "v", "/", "r", "o", "o", "t", "f", "s">>

\* Host paths a caller passes: the three the test suite expects to be
\* refused, a relative data directory, and a directory that only contains
\* the word root.
HostPathArgs == {PathRoot, PathEtc, PathUp, PathData, PathRootfs}

MountNames == {PathData, PathRoot}

NextMountAt ==
  \/ GetInstance(SidA)
  \/ \E o \in DOMAIN mgr, outcome \in {"loadFails", "ok"} : Initialize(o, outcome)
  \/ \E o \in DOMAIN mgr, name \in MountNames, hp \in HostPathArgs,
        hostFail \in BOOLEAN, fsFail \in {"none", "mkdirTree", "mount"} :
       MountDirectoryAt(o, name, hp, hostFail, fsFail)

SpecMountAt == InitCommon /\ [][NextMountAt]_vars

\* The paths the mount policy names: /etc, /root, and any path with a "../"
\* segment.
DeniedPath(p) ==
  \/ StartsWith(p, PathEtc)
  \/ StartsWith(p, PathRoot)
  \/ Includes(p, PathUp)

DeniedMount(l) ==
  /\ l.op = "mountDirectoryAt"
  /\ \/ DeniedPath(l.hostPath)
     \/ DeniedPath(pathResolve(cwd, l.hostPath \o Slash \o l.sid))

\* C3: a mountDirectory call whose resolved host path or base host path is
\* /root, /etc or contains "../" returns false and creates nothing: no host
\* directory, no sandbox directory, no bind, no mount-table entry.
C3_DeniedMountFailsCleanly ==
  [][DeniedMount(last') => (last'.ret = FALSE /\ hostDirs' = hostDirs /\ mgr' = mgr)]_vars

C3_Witness ==
  /\ last.op = "mountDirectoryAt"
  /\ last.hostPath = PathUp
  /\ mgr[last.obj].pyodide # NoPy
  /\ mgr[last.obj].mountPoints # {}
  /\ last.ret = FALSE

----------------------------------------------------------------------------
(* Scripts and the interpreter *)

Newline == <<"\n">>

Stmt(text, kind, prim) == [text |-> text, kind |-> kind, prim |-> prim]

StmtCallUrlopen == Stmt(<<"u", "r", "l", "l", "i", "b", ".", "r", "e", "q", "u", "e",
                          "s", "t", ".", "u", "r", "l", "o", "p", "e", "n", "(", "u",
                          ")">>, "call", "urllib.request.urlopen")
StmtCallCreateConnection ==
  Stmt(<<"s", "o", "c", "k", "e", "t", ".", "c", "r", "e", "a", "t", "e", "_", "c",
         "o", "n", "n", "e", "c", "t", "i", "o", "n", "(", "a", ")">>, "call", "socket.create_connection")
StmtCallSocket == Stmt(<<"s", "o", "c", "k", "e", "t", ".", "s", "o", "c", "k", "e",
                         "t", "(", ")">>, "call", "socket.socket")
StmtCallGethostbyname ==
  Stmt(<<"s", "o", "c", "k", "e", "t", ".", "g", "e", "t", "h", "o", "s", "t", "b",
         "y", "n", "a", "m", "e", "(", "'", "l", "o", "c", "a", "l", "h", "o", "s",
         "t", "'", ")">>, "call", "socket.gethostbyname")
\* try: socket.socket() / except Exception: pass
StmtTryCallSocket ==
  Stmt(<<"t", "r", "y", ":", "s", "o", "c", "k", "e", "t", ".", "s", "o", "c", "k",
         "e", "t", "(", ")">> \o Newline \o <<"e", "x", "c", "e", "p", "t", " ", "E",
                                              "x", "c", "e", "p", "t", "i", "o", "n",
                                              ":", "p", "a", "s", "s">>, "tryCall", "socket.socket")
\* importlib.reload(socket) executes the module again, which defines its
\* functions and classes anew.
StmtReloadSocket == Stmt(<<"i", "m", "p", "o", "r", "t", "l", "i", "b", ".", "r", "e",
                           "l", "o", "a", "d", "(", "s", "o", "c", "k", "e", "t", ")">>, "reload", "socket")
StmtExpr == Stmt(<<"1", "+", "1">>, "expr", Null)
StmtBind == Stmt(<<"x", "=", "1">>, "bind", "x")
StmtName == Stmt(<<"x">>, "name", "x")
StmtPrint == Stmt(<<"p", "r", "i", "n", "t", "(", "'", "h", "i", "'", ")">>, "print", Null)
StmtRaise == Stmt(<<"r", "a", "i", "s", "e", " ", "V", "a", "l", "u", "e", "E", "r",
                    "r", "o", "r", "(", "'", "n", "o", "'", ")">>, "raise", Null)
StmtImportMicropip == Stmt(<<"i", "m", "p", "o", "r", "t", " ", "m", "i", "c", "r",
                             "o", "p", "i", "p">>, "import", "micropip")
StmtCommentMicropip == Stmt(<<"#", "m", "i", "c", "r", "o", "p", "i", "p">>, "comment", Null)
StmtCommentMicroPip == Stmt(<<"#", "m", "i", "c", "r", "o", " ", "p", "i", "p">>, "comment", Null)
StmtLoop == Stmt(<<"w", "h", "i", "l", "e", " ", "T", "r", "u", "e", ":", " ", "p",
                   "a", "s", "s">>, "loop", Null)

RECURSIVE ScriptText(_)
\* The source text of a script: its statements, one per line.
ScriptText(script) ==
  IF script = <<>> THEN <<>>
  ELSE IF Len(script) = 1 THEN script[1].text
  ELSE script[1].text \o Newline \o ScriptText(Tail(script))

NetworkDisabled == <<"N", "e", "t", "w", "o", "r", "k", " ", "a", "c", "c", "e", "s",
                     "s", " ", "d", "i", "s", "a", "b", "l", "e", "d">>
RuntimeErrorPrefix == <<"R", "u", "n", "t", "i", "m", "e", "E", "r", "r", "o", "r",
                        ":", " ">>
Undefined == <<"u", "n", "d", "e", "f", "i", "n", "e", "d">>
NameError == <<"N", "a", "m", "e", "E", "r", "r", "o", "r", ":", " ", "n", "a", "m",
               "e", " ", "'">>

\* The module attributes importlib.reload(socket) defines anew.
ReloadedBy(module) ==
  IF module = "socket" THEN Prims \ {"urllib.request.urlopen"}
  ELSE IF module = "urllib.request" THEN {"urllib.request.urlopen"}
  ELSE {}

\* What a call of a primitive the standard library still implements does in
\* the embedded runtime is left open: it returns or it raises an OSError.
NetOutcomes == {"returns", "raises"}

\* The interpreter's run of a script so far: its state, whether an exception
\* has propagated, the value of the last statement or the error text, what
\* was printed, whether a network primitive was called, and how many
\* statements ran.
StartRun(py) ==
  [py |-> py, raised |-> FALSE, text |-> Undefined, output |-> <<>>,
   invoked |-> FALSE, ran |-> 0]

Raise(r, text) == [r EXCEPT !.raised = TRUE, !.text = text]

\* One statement.
runStmt(r0, st, net) ==
  LET r == [r0 EXCEPT !.ran = @ + 1, !.text = Undefined] IN
  CASE st.kind = "call" ->
         LET c == [r EXCEPT !.invoked = TRUE] IN
         IF r.py.attrs[st.prim] = "blocked"
           THEN Raise(c, RuntimeErrorPrefix \o NetworkDisabled)
         ELSE IF net = "raises" THEN Raise(c, <<"O", "S", "E", "r", "r", "o", "r", ":",
                                                " ", "[", "E", "r", "r", "n", "o", " ",
                                                "2", "3", "]", " ", "H", "o", "s", "t",
                                                " ", "i", "s", " ", "u", "n", "r", "e",
                                                "a", "c", "h", "a", "b", "l", "e">>)
         ELSE [c EXCEPT !.text = <<"<", "o", "b", "j", "e", "c", "t", ">">>]
    [] st.kind = "tryCall" -> [r EXCEPT !.invoked = TRUE]
    [] st.kind = "reload" ->
         [r EXCEPT !.py.attrs = [p \in Prims |->
                                   IF p \in ReloadedBy(st.prim) THEN "original" ELSE @[p]]]
    [] st.kind = "expr" -> [r EXCEPT !.text = <<"2">>]
    [] st.kind = "bind" -> [r EXCEPT !.py.globals = @ \cup {st.prim}]
    [] st.kind = "name" ->
         IF st.prim \in r.py.globals THEN [r EXCEPT !.text = <<"1">>]
         ELSE Raise(r, NameError \o st.prim \o <<"'", " ", "i", "s", " ", "n", "o",
                                                 "t", " ", "d", "e", "f", "i", "n",
                                                 "e", "d">>)
    [] st.kind = "print" -> [r EXCEPT !.output = @ \o <<"h", "i">> \o Newline]
    [] st.kind = "raise" -> Raise(r, <<"V", "a", "l", "u", "e", "E", "r", "r", "o",
                                       "r", ":", " ", "n", "o">>)
    [] st.kind = "import" ->
         Raise(r, <<"M", "o", "d", "u", "l", "e", "N", "o", "t", "F", "o", "u", "n",
                    "d", "E", "r", "r", "o", "r", ":", " ", "N", "o", " ", "m", "o",
                    "d", "u", "l", "e", " ", "n", "a", "m", "e", "d", " ", "'", "m",
                    "i", "c", "r", "o", "p", "i", "p", "'">>)
    [] st.kind = "listdir" ->
         IF st.prim \in r.py.fsDirs THEN [r EXCEPT !.text = <<"[", "]">>]
         ELSE [r EXCEPT !.text = <<"[", "]">>,
                        !.output = @ \o <<"E", "r", "r", "o", "r", " ", "l", "i", "s",
                                          "t", "i", "n", "g", " ", "d", "i", "r", "e",
                                          "c", "t", "o", "r", "y", ":", " ">>
                                     \o st.prim \o Newline]
    [] OTHER -> r

RECURSIVE runFrom(_, _, _, _)
runFrom(r, script, i, net) ==
  IF i > Len(script) \/ r.raised THEN r
  ELSE runFrom(runStmt(r, script[i], net), script, i + 1, net)

\* pyodide.runPythonAsync(code)
runPythonAsync(py, script, net) == runFrom(StartRun(py), script, 1, net)

----------------------------------------------------------------------------
(* executePython(code) *)

Micropip == <<"m", "i", "c", "r", "o", "p", "i", "p">>

\* The token is looked for at the start of the script only.
hasInstallerTokenAtStart(code) == StartsWith(code, Micropip)

\* code.includes("micropip")
hasInstallerToken(code) == Includes(code, Micropip)

\* What formatCallToolSuccess is given: the captured output, when there is
\* any, before the stringified result.
successText(output, result) ==
  IF output # <<>>
    THEN <<"O", "u", "t", "p", "u", "t", ":">> \o Newline \o output \o Newline \o
        <<"R", "e", "s", "u", "l", "t", ":">> \o Newline \o result
    ELSE result

\* Without the cleanup the globals stay as the script left them.
cleanupSkipped(py) == py

\* this.pyodide.globals.clear(), then runPythonAsync("import gc;
\* gc.collect()"), which binds the name gc anew.
cleanup(py) == [py EXCEPT !.globals = {"gc"}]

\* executePython: the manager, the result, and what the interpreter did.
\* On success the globals are cleared; on an exception they are left.
executePython(m, script, net) ==
  LET code == ScriptText(script)
      r == runPythonAsync(m.pyodide, script, net)
      refused(text) ==
        [m |-> m, ret |-> formatCallToolError(text), ran |-> 0, invoked |-> FALSE]
  IN
  IF m.pyodide = NoPy THEN refused(<<"P", "y", "o", "d", "i", "d", "e", " ", "n", "o",
                                     "t", " ", "i", "n", "i", "t", "i", "a", "l", "i",
                                     "z", "e", "d">>)
  ELSE IF hasInstallerToken(code) THEN refused(<<"P", "a", "c", "k", "a", "g", "e",
                                                 " ", "i", "n", "s", "t", "a", "l",
                                                 "l", "a", "t", "i", "o", "n", " ",
                                                 "d", "i", "s", "a", "b", "l", "e", "d">>)
  ELSE IF r.raised
    THEN [m |-> [m EXCEPT !.pyodide = r.py], ret |-> formatCallToolError(r.text),
          ran |-> r.ran, invoked |-> r.invoked]
  ELSE [m |-> [m EXCEPT !.pyodide = cleanup(r.py)],
        ret |-> formatCallToolSuccess(successText(r.output, r.text)),
        ran |-> r.ran, invoked |-> r.invoked]

ExecutePython(o, script, net) ==
  /\ o \in DOMAIN mgr
  /\ LET r == executePython(mgr[o], script, net) IN
     /\ mgr' = SetMgr(o, r.m)
     /\ last' = [ObserveResult("executePython", mgr[o].sessionId, o, r.ret)
                   EXCEPT !.code = ScriptText(script), !.ran = r.ran,
                          !.note = IF r.invoked THEN "invoked" ELSE Null]
  /\ UNCHANGED <<cwd, hostDirs, instances, calls>>

\* Scripts that return: one statement each, and some of two.
ExecScripts ==
  {<<s>> : s \in {StmtCallUrlopen, StmtCallCreateConnection, StmtCallSocket,
                  StmtCallGethostbyname, StmtTryCallSocket, StmtReloadSocket,
                  StmtExpr, StmtBind, StmtName, StmtPrint, StmtRaise,
                  StmtImportMicropip,
                  StmtCommentMicropip, StmtCommentMicroPip}}
  \cup {<<StmtReloadSocket, StmtImportMicropip>>, <<StmtBind, StmtCommentMicropip>>,
        <<StmtPrint, StmtExpr>>, <<StmtBind, StmtRaise>>,
        <<StmtReloadSocket, StmtCallSocket>>, <<StmtReloadSocket, StmtCallUrlopen>>}

NextExec ==
  \/ GetInstance(SidA)
  \/ \E o \in DOMAIN mgr, outcome \in InitOutcomes : Initialize(o, outcome)
  \/ \E o \in DOMAIN mgr, script \in ExecScripts, net \in NetOutcomes :
       ExecutePython(o, script, net)

SpecExec == InitCommon /\ [][NextExec]_vars

\* C4: on a manager whose initialize has returned true, after any sequence
\* of executePython calls, a script that calls urllib.request.urlopen,
\* socket.create_connection, socket.socket or socket.gethostbyname yields an
\* error result whose text contains "Network access disabled".
C4_NetworkStaysDisabled ==
  (last.op = "executePython" /\ last.note = "invoked" /\ mgr[last.obj].ready)
    => (last.result.isError /\ Includes(last.result.text, NetworkDisabled))

\* C5: on a manager that holds an interpreter, executePython of a script
\* whose text contains "micropip" returns the error "Package installation
\* disabled", the interpreter runs no statement of it, and nothing changes.
C5_InstallerTokenRefused ==
  [][(last'.op = "executePython" /\ alreadyInitialized(mgr[last'.obj])
        /\ Includes(last'.code, Micropip))
      => /\ last'.result = formatCallToolError(<<"P", "a", "c", "k", "a", "g", "e",
                                                 " ", "i", "n", "s", "t", "a", "l",
                                                 "l", "a", "t", "i", "o", "n", " ",
                                                 "d", "i", "s", "a", "b", "l", "e", "d">>)
         /\ last'.ran = 0
         /\ mgr' = mgr]_vars

C5_Witness ==
  /\ last.op = "executePython"
  /\ last.code = ScriptText(<<StmtReloadSocket, StmtImportMicropip>>)
  /\ mgr[last.obj].ready
  /\ mgr[last.obj].pyodide.attrs["socket.socket"] = "blocked"
  /\ last.result = formatCallToolError(<<"P", "a", "c", "k", "a", "g", "e", " ", "i",
                                         "n", "s", "t", "a", "l", "l", "a", "t", "i",
                                         "o", "n", " ", "d", "i", "s", "a", "b", "l",
                                         "e", "d">>)
  /\ last.ran = 0

----------------------------------------------------------------------------
(* The packages a script names *)

SetOf(s) == {s[i] : i \in DOMAIN s}

\* [a-zA-Z_] and [a-zA-Z0-9_]
IdStart == SetOf(<<"a", "b", "c", "d", "e", "f", "g", "h", "i", "j", "k", "l", "m",
                   "n", "o", "p", "q", "r", "s", "t", "u", "v", "w", "x", "y", "z",
                   "A", "B", "C", "D", "E", "F", "G", "H", "I", "J", "K", "L", "M",
                   "N", "O", "P", "Q", "R", "S", "T", "U", "V", "W", "X", "Y", "Z", "_">>)

IdChar == IdStart \cup SetOf(<<"0", "1", "2", "3", "4", "5", "6", "7", "8", "9">>)

\* \s, and the characters after which ^ matches under the m flag.
WhiteSpace == {" ", "\t", "\n", "\r", "\f"}

LineTerminators == {"\n", "\r"}

RECURSIVE skipWhile(_, _, _)
\* The first index from i on whose character is not in set.
skipWhile(s, i, set) ==
  IF i <= Len(s) /\ s[i] \in set THEN skipWhile(s, i + 1, set) ELSE i

HasAt(s, i, w) == i + Len(w) - 1 <= Len(s) /\ SubSeq(s, i, i + Len(w) - 1) = w

\* Every line start is taken for an import.
LineStartAnywhere(s, p) == TRUE

\* ^ under the m flag: the start of the text or after a line terminator.
LineStart(s, p) == p = 1 \/ s[p - 1] \in LineTerminators

\* \s*(?:import|from)\s+([a-zA-Z_][a-zA-Z0-9_]*) tried at index p.
importMatch(s, p) ==
  LET i1 == skipWhile(s, p, WhiteSpace)
      kw == IF HasAt(s, i1, <<"i", "m", "p", "o", "r", "t">>) THEN
          <<"i", "m", "p", "o", "r", "t">>
            ELSE IF HasAt(s, i1, <<"f", "r", "o", "m">>) THEN <<"f", "r", "o", "m">>
            ELSE <<>>
      i2 == i1 + Len(kw)
      i3 == skipWhile(s, i2, WhiteSpace)
      i4 == skipWhile(s, i3, IdChar)
  IN
  IF kw # <<>> /\ i3 > i2 /\ i3 <= Len(s) /\ s[i3] \in IdStart
    THEN [ok |-> TRUE, name |-> SubSeq(s, i3, i4 - 1), end |-> i4]
    ELSE [ok |-> FALSE, name |-> <<>>, end |-> p]

SeqHas(seq, x) == \E i \in DOMAIN seq : seq[i] = x

RECURSIVE scanImports(_, _, _)
\* regex.exec in a loop under the g flag: the next match is looked for from
\* the end of the last one; the names go into a Set, in order of first use.
scanImports(s, p, acc) ==
  IF p > Len(s) THEN acc
  ELSE LET mt == importMatch(s, p) IN
       IF LineStart(s, p) /\ mt.ok
         THEN scanImports(s, mt.end, IF SeqHas(acc, mt.name) THEN acc
                                     ELSE Append(acc, mt.name))
         ELSE scanImports(s, p + 1, acc)

extractPythonPackages(pythonCode) == scanImports(pythonCode, 1, <<>>)

preInstalledPackages ==
  <<<<"n", "u", "m", "p", "y">>, <<"s", "c", "i", "p", "y">>, <<"s", "y", "m", "p", "y">>,
    <<"m", "a", "t", "p", "l", "o", "t", "l", "i", "b">>,
        <<"s", "e", "a", "b", "o", "r", "n">>,
    <<"p", "l", "o", "t", "l", "y">>, <<"o", "s">>, <<"p", "a", "t", "h", "l", "i", "b">>,
    <<"p", "a", "n", "d", "a", "s">>, <<"m", "a", "r", "k", "d", "o", "w", "n">>,
    <<"m", "i", "s", "t", "u", "n", "e">>, <<"P", "y", "P", "D", "F", "2">>,
    <<"r", "e", "p", "o", "r", "t", "l", "a", "b">>>>

----------------------------------------------------------------------------
(* installPackage, installPackages, listMountedDirectory *)

NotInitialized == <<"P", "y", "o", "d", "i", "d", "e", " ", "n", "o", "t", " ", "i",
                    "n", "i", "t", "i", "a", "l", "i", "z", "e", "d">>

RECURSIVE SplitSpaceFrom(_, _, _)
\* packageName.split(" ")
SplitSpaceFrom(s, i, cur) ==
  IF i > Len(s) THEN <<cur>>
  ELSE IF s[i] = " " THEN <<cur>> \o SplitSpaceFrom(s, i + 1, <<>>)
  ELSE SplitSpaceFrom(s, i + 1, Append(cur, s[i]))

RECURSIVE trimEnd(_)
trimEnd(s) ==
  IF s # <<>> /\ s[Len(s)] \in WhiteSpace THEN trimEnd(SubSeq(s, 1, Len(s) - 1)) ELSE s

trim(s) == trimEnd(SubSeq(s, skipWhile(s, 1, WhiteSpace), Len(s)))

NonEmpty(s) == s # <<>>

\* Without the filter of line 426 every name is let through.
PermittedAlways(pkg) == TRUE

\* preInstalledPackages.includes(pkg)
Permitted(pkg) == SeqHas(preInstalledPackages, pkg)

\* What happens to one package: loadPackage resolves ("loaded"); it rejects
\* and the fallback goes through ("fallback"); the fallback throws and its
\* second run in the catch block goes through ("retried"); the second run
\* throws as well ("failed").
PkgOutcomes == {"loaded", "fallback", "retried", "failed"}

OutAt(outs, i) == IF i \in DOMAIN outs THEN outs[i] ELSE "loaded"

\* process.env.PYODIDE_CACHE_DIR || "./cache", and the directory of the
\* wheels inside the sandbox.
CacheDir == <<".", "/", "c", "a", "c", "h", "e">>

WheelsDir == <<"/", "t", "m", "p", "/", "w", "h", "e", "e", "l", "s">>

WheelPath(wd, pkg) ==
  pathResolve(wd, CacheDir \o Slash \o pkg \o <<"-", "p", "y", "3", "-", "n", "o", "n",
                                                "e", "-", "a", "n", "y", ".", "w", "h",
                                                "l">>)

PackageInfoError == <<"E", "r", "r", "o", "r", ":", " ", "F", "a", "i", "l", "e", "d",
                      " ", "t", "o", " ", "g", "e", "t", " ", "p", "a", "c", "k", "a",
                      "g", "e", " ", "i", "n", "f", "o", ":", " ", "4", "0", "4">>

Log(st, line) == [st EXCEPT !.outputs = Append(@, line)]

\* The fallback up to the index query: the cache directory on the host and
\* /tmp/wheels in the sandbox are made.
fallbackDirs(st, wd) ==
  [st EXCEPT !.hd = @ \cup Ancestors(pathResolve(wd, CacheDir)),
             !.py = mkdirTree(@, WheelsDir)]

\* The rest of the fallback: the wheel is downloaded into the cache
\* directory, copied into the sandbox and installed.
fallbackWheel(st, wd, pkg, done) ==
  Log([Log(st, <<"D", "o", "w", "n", "l", "o", "a", "d", "i", "n", "g", " ", "w", "h",
                 "e", "e", "l", " ", "f", "o", "r", " ">> \o pkg \o
      <<".", ".", ".">>)
         EXCEPT !.hd = @ \cup {WheelPath(wd, pkg)}],
      done \o pkg \o <<" ", "u", "s", "i", "n", "g", " ", "m", "i", "c", "r", "o", "p",
                       "i", "p", ":", " ">>)

\* The catch block of one package: the fallback once more, outside any try
\* of the loop.
installRetry(st, wd, pkg, out) ==
  LET c == fallbackDirs(
             Log(Log(st, <<"l", "o", "a", "d", "P", "a", "c", "k", "a", "g", "e", " ",
                           "f", "a", "i", "l", "e", "d", " ", "f", "o", "r", " ">> \o pkg \o
                 <<":", " ">>
                           \o PackageInfoError),
                 <<"F", "a", "l", "l", "i", "n", "g", " ", "b", "a", "c", "k", " ",
                   "t", "o", " ", "m", "i", "c", "r", "o", "p", "i", "p", ".", ".", ".">>), wd)
  IN
  IF out = "failed" THEN [c EXCEPT !.failed = TRUE, !.error = PackageInfoError]
  ELSE fallbackWheel(c, wd, pkg, <<"I", "n", "s", "t", "a", "l", "l", "e", "d", " ">>)

\* await this.pyodide.loadPackage("micropip") at the head of the fallback.
loadMicropip(st) == [st EXCEPT !.micropip = @ + 1]

\* One turn of the loop in which the fallback runs whatever loadPackage did.
installOneThenFallback(st0, wd, pkg, out) ==
  LET a == Log([st0 EXCEPT !.attempted = @ + 1],
               <<"A", "t", "t", "e", "m", "p", "t", "i", "n", "g", " ", "t", "o", " ",
                 "i", "n", "s", "t", "a", "l", "l", " ">> \o pkg \o
                   <<" ", "u", "s", "i", "n", "g", " ", "l", "o", "a", "d", "P", "a",
                     "c", "k", "a", "g", "e", ".", ".", ".">>)
      n == IF out = "loaded"
             THEN Log(a, <<"S", "u", "c", "c", "e", "s", "s", "f", "u", "l", "l", "y",
                           " ", "i", "n", "s", "t", "a", "l", "l", "e", "d", " ">> \o pkg
                           \o <<" ", "u", "s", "i", "n", "g", " ", "l", "o", "a", "d",
                                "P", "a", "c", "k", "a", "g", "e", ".">>)
             ELSE a
  IN
  fallbackWheel(fallbackDirs(Log(n, <<"F", "a", "l", "l", "i", "n", "g", " ", "b", "a",
                                      "c", "k", " ", "t", "o", " ", "m", "i", "c", "r",
                                      "o", "p", "i", "p", " ", "f", "o", "r", " ">> \o pkg
                                      \o <<".", ".", ".">>), wd),
                wd, pkg, <<"S", "u", "c", "c", "e", "s", "s", "f", "u", "l", "l", "y",
                           " ", "i", "n", "s", "t", "a", "l", "l", "e", "d", " ">>)

\* One turn of the loop over the permitted packages.
installOne(st0, wd, pkg, out) ==
  LET st == [st0 EXCEPT !.attempted = @ + 1]
      a == Log(st, <<"A", "t", "t", "e", "m", "p", "t", "i", "n", "g", " ", "t", "o",
                     " ", "i", "n", "s", "t", "a", "l", "l", " ">> \o pkg \o
          <<" ", "u", "s", "i", "n", "g", " ", "l", "o", "a", "d", "P", "a", "c", "k",
            "a", "g", "e", ".", ".", ".">>)
      f == fallbackDirs(loadMicropip(
             Log(Log(a, <<"l", "o", "a", "d", "P", "a", "c", "k", "a", "g", "e", " ",
                          "f", "a", "i", "l", "e", "d", " ", "f", "o", "r", " ">> \o pkg
                          \o <<":", " ", "N", "o", " ", "k", "n", "o", "w", "n", " ",
                               "p", "a", "c", "k", "a", "g", "e", " ", "w", "i", "t",
                               "h", " ", "n", "a", "m", "e", " ">> \o pkg),
                 <<"F", "a", "l", "l", "i", "n", "g", " ", "b", "a", "c", "k", " ",
                   "t", "o", " ", "m", "i", "c", "r", "o", "p", "i", "p", " ", "f",
                   "o", "r", " ">> \o pkg \o <<".", ".", ".">>)), wd)
  IN
  IF out = "loaded"
    THEN Log(a, <<"S", "u", "c", "c", "e", "s", "s", "f", "u", "l", "l", "y", " ", "i",
                  "n", "s", "t", "a", "l", "l", "e", "d", " ">> \o pkg \o
        <<" ", "u", "s", "i", "n", "g", " ", "l", "o", "a", "d", "P", "a", "c", "k",
          "a", "g", "e", ".">>)
  ELSE IF out = "fallback" THEN fallbackWheel(f, wd, pkg,
      <<"S", "u", "c", "c", "e", "s", "s", "f", "u", "l", "l", "y", " ", "i", "n", "s",
        "t", "a", "l", "l", "e", "d", " ">>)
  ELSE installRetry(f, wd, pkg, out)

RECURSIVE installFrom(_, _, _, _, _)
\* for (const pkg of permittedPackages): an error that leaves the loop body
\* ends the loop.
installFrom(st, wd, pkgs, i, outs) ==
  IF i > Len(pkgs) \/ st.failed THEN st
  ELSE With(installOne(st, wd, pkgs[i], OutAt(outs, i)),
            LAMBDA next : installFrom(next, wd, pkgs, i + 1, outs))

installCatchRethrows(error) == [thrown |-> TRUE, ret |-> JsError(error)]

\* catch (error) { return formatCallToolError(error) } around the whole of
\* installPackage.
installCatch(error) == [thrown |-> FALSE, ret |-> formatCallToolError(error)]

RECURSIVE JoinLines(_)
\* outputs.join("\n\n")
JoinLines(lines) ==
  IF lines = <<>> THEN <<>>
  ELSE IF Len(lines) = 1 THEN lines[1]
  ELSE lines[1] \o Newline \o Newline \o JoinLines(Tail(lines))

permittedPackages(packageName) ==
  SelectSeq(SelectSeq([i \in DOMAIN SplitSpaceFrom(packageName, 1, <<>>) |->
                         trim(SplitSpaceFrom(packageName, 1, <<>>)[i])],
                      NonEmpty),
            Permitted)

\* installPackage(packageName): the manager, the host directories, whether
\* it threw, what it returned or threw, and how many packages it tried.
installPackage(m, wd, hd, packageName, outs) ==
  LET names == SelectSeq([i \in DOMAIN SplitSpaceFrom(packageName, 1, <<>>) |->
                            trim(SplitSpaceFrom(packageName, 1, <<>>)[i])],
                         NonEmpty)
  IN
  IF m.pyodide = NoPy
    THEN [m |-> m, hd |-> hd, thrown |-> TRUE, ret |-> JsError(NotInitialized),
          attempted |-> 0, micropip |-> 0]
  ELSE IF names = <<>>
    THEN [m |-> m, hd |-> hd, thrown |-> FALSE,
          ret |-> formatCallToolError(<<"E", "r", "r", "o", "r", ":", " ", "N", "o", " ",
                                        "v", "a", "l", "i", "d", " ", "p", "a", "c", "k",
                                        "a", "g", "e", " ", "n", "a", "m", "e", "s">>),
          attempted |-> 0, micropip |-> 0]
  ELSE
  With(installFrom([py |-> m.pyodide, hd |-> hd, outputs |-> <<>>, failed |-> FALSE,
                    error |-> <<>>, attempted |-> 0, micropip |-> 0],
                   wd, permittedPackages(packageName), 1, outs),
       LAMBDA st :
  [m |-> [m EXCEPT !.pyodide = st.py], hd |-> st.hd,
   thrown |-> st.failed /\ installCatch(st.error).thrown,
   ret |-> IF st.failed THEN installCatch(st.error).ret
           ELSE formatCallToolSuccess(JoinLines(st.outputs)),
   attempted |-> st.attempted, micropip |-> st.micropip])

RECURSIVE installAll(_, _, _, _, _)
\* packages.map((pkg) => this.installPackage(pkg)) under Promise.all: what
\* the calls return is dropped, what one of them throws rejects the whole.
installAll(r, wd, packages, i, outs) ==
  IF i > Len(packages) \/ r.thrown THEN r
  ELSE
  With(installPackage(r.m, wd, r.hd, packages[i], <<OutAt(outs, i)>>),
       LAMBDA one :
  With([m |-> one.m, hd |-> one.hd, thrown |-> one.thrown,
        ret |-> IF one.thrown THEN one.ret ELSE NoResult,
        attempted |-> r.attempted + one.attempted,
        micropip |-> r.micropip + one.micropip],
       LAMBDA next : installAll(next, wd, packages, i + 1, outs)))

\* installPackages(code)
installPackages(m, wd, hd, code, outs) ==
  installAll([m |-> m, hd |-> hd, thrown |-> FALSE, ret |-> NoResult, attempted |-> 0,
              micropip |-> 0],
             wd, extractPythonPackages(code), 1, outs)

\* The script listMountedDirectory hands to executePython.
StmtListDirectory(mountPoint) ==
  Stmt(<<"l", "i", "s", "t", "_", "d", "i", "r", "e", "c", "t", "o", "r", "y", "(",
         "\", ", "">> \o mountPoint \o <<"\", ", "", ")">>, "listdir", mountPoint)

\* listMountedDirectory()
listMountedDirectory(m) ==
  IF m.pyodide = NoPy
    THEN [m |-> m, ret |-> formatCallToolError(NotInitialized), ran |-> 0,
          invoked |-> FALSE]
  ELSE executePython(m, <<StmtListDirectory(getSessionMountPoint(m))>>, "returns")

InstallPackage(o, packageName, outs) ==
  /\ o \in DOMAIN mgr
  /\ LET r == installPackage(mgr[o], cwd, hostDirs, packageName, outs) IN
     /\ mgr' = SetMgr(o, r.m)
     /\ hostDirs' = r.hd
     /\ last' = [ObserveResult("installPackage", mgr[o].sessionId, o, r.ret)
                   EXCEPT !.name = packageName,
                          !.ran = r.attempted,
                          !.loads = r.micropip,
                          !.run = IF r.thrown THEN "thrown" ELSE "returned"]
  /\ UNCHANGED <<cwd, instances, calls>>

InstallPackages(o, script, outs) ==
  /\ o \in DOMAIN mgr
  /\ LET r == installPackages(mgr[o], cwd, hostDirs, ScriptText(script), outs) IN
     /\ mgr' = SetMgr(o, r.m)
     /\ hostDirs' = r.hd
     /\ last' = [ObserveResult("installPackages", mgr[o].sessionId, o, r.ret)
                   EXCEPT !.code = ScriptText(script),
                          !.ran = r.attempted,
                          !.loads = r.micropip,
                          !.run = IF r.thrown THEN "thrown" ELSE "returned"]
  /\ UNCHANGED <<cwd, instances, calls>>

ListMountedDirectory(o) ==
  /\ o \in DOMAIN mgr
  /\ LET r == listMountedDirectory(mgr[o]) IN
     /\ mgr' = SetMgr(o, r.m)
     /\ last' = [ObserveResult("listMountedDirectory", mgr[o].sessionId, o, r.ret)
                   EXCEPT !.run = "returned"]
  /\ UNCHANGED <<cwd, hostDirs, instances, calls>>

StmtImportOs == Stmt(<<"i", "m", "p", "o", "r", "t", " ", "o", "s">>, "module", "os")

StmtFromPathlib == Stmt(<<"f", "r", "o", "m", " ", "p", "a", "t", "h", "l", "i", "b",
                          " ", "i", "m", "p", "o", "r", "t", " ", "P", "a", "t", "h">>, "module", "pathlib")

StmtImportJson == Stmt(<<"i", "m", "p", "o", "r", "t", " ", "j", "s", "o", "n">>, "module", "json")

StmtImportOsPath == Stmt(<<" ", " ", "i", "m", "p", "o", "r", "t", " ", "o", "s", ".",
                           "p", "a", "t", "h", ",", " ", "p", "a", "t", "h", "l", "i",
                           "b">>, "module", "os")

StmtCommentImport == Stmt(<<"#", " ", "i", "m", "p", "o", "r", "t", " ", "n", "u", "m",
                            "p", "y">>, "comment", Null)

PackageNames ==
  {<<"o", "s", " ", "r", "e", "q", "u", "e", "s", "t", "s", " ", "p",
                   "a", "t", "h", "l", "i", "b">>,
      <<"p", "a", "t", "h", "l", "i", "b", " ", " ", "o", "s">>,
      <<"r", "e", "q", "u", "e", "s", "t", "s">>, <<" ">>}

InstallScripts ==
  {<<StmtExpr>>, <<StmtCommentImport, StmtImportJson>>,
   <<StmtImportOs, StmtFromPathlib>>, <<StmtImportOsPath, StmtImportOs>>}

\* What happens to the first package and to the second.
OutcomeSeqs == {<<a, b>> : a \in PkgOutcomes, b \in {"loaded", "failed"}}

----------------------------------------------------------------------------
(* The worker script: one thread per runCode call, with a manager of its   *)
(* own                                                                     *)

\* Scripts sent to a worker; the last one never completes.
RunScripts == {<<StmtExpr>>, <<StmtImportMicropip>>, <<StmtLoop>>}

Loops(script) == \E i \in 1..Len(script) : script[i].kind = "loop"

ExitCodes == {0, 1}

\* What the thread sends to its parent.
EvMessage(result) == [ev |-> "message", cmd |-> "response", result |-> result, code |-> 0]
EvError(message) == [ev |-> "error", cmd |-> Null, result |-> JsError(message), code |-> 0]
EvExit(code) == [ev |-> "exit", cmd |-> Null, result |-> NoResult, code |-> code]

\* An uncaught throw in the worker script: an error event, then the exit.
Throws(hd, message) == [hd |-> hd, thread |-> "ended", events |-> <<EvError(message), EvExit(1)>>]

\* What goes wrong in a run of the worker script, if anything: the runtime
\* ends the thread before the script has posted anything (with exit code 0
\* or 1), a step of initialize or of mountDirectory fails, or a download
\* started by installPackages never ends. The script stops at the first
\* failure, so one fault a run covers every run.
Faults ==
  {"none", "exit0", "exit1", "loadFails", "hostMkdir", "mkdirTree", "mount",
   "installHangs"}

\* The faults of the installs of the worker, on top of none.
InstallFaults == {"none", "installHangs", "installFails"}

\* What happens to the packages the script names.
InstallOuts(fault) ==
  IF fault = "installFails" THEN <<"failed", "failed">> ELSE <<"loaded", "loaded">>

\* The permitted packages among those the script names.
ScriptPackages(script) == SelectSeq(extractPythonPackages(ScriptText(script)), Permitted)

\* A download that does not end: the fallback has made its directories and
\* downloadWheel has opened the file it writes the wheel to.
downloadStarted(hd, wd, pkg) ==
  hd \cup Ancestors(pathResolve(wd, CacheDir)) \cup {WheelPath(wd, pkg)}

\* The worker script from its first line to the end of the thread. Every
\* failure of an install is caught inside installPackage, so installPackages
\* returns whenever its downloads end.
workerScript(sid, script, wd, hd, fault, net) ==
  IF fault = "exit0" THEN [hd |-> hd, thread |-> "ended", events |-> <<EvExit(0)>>]
  ELSE IF fault = "exit1" THEN [hd |-> hd, thread |-> "ended", events |-> <<EvExit(1)>>]
  ELSE IF sid = <<>> \/ sid = <<"undefined">> THEN Throws(hd,
      <<"s", "e", "s", "s", "i", "o", "n", "I", "d", " ", "i", "s", " ", "r", "e", "q",
        "u", "i", "r", "e", "d">>)
  ELSE
  With(initialize(NewManager(sid), IF fault = "loadFails" THEN fault ELSE "ok"),
       LAMBDA r1 :
  IF ~r1.ret THEN Throws(hd, <<"F", "a", "i", "l", "e", "d", " ", "t", "o", " ",
                               "i", "n", "i", "t", "i", "a", "l", "i", "z", "e",
                               " ", "P", "y", "o", "d", "i", "d", "e">>)
  ELSE
  With(mountDirectory(r1.m, wd, hd, fault = "hostMkdir",
                      IF fault \in {"mkdirTree", "mount"} THEN fault ELSE "none"),
       LAMBDA r2 :
  IF getSessionMountPoint(r2.m) \notin r2.m.pyodide.fsDirs
    THEN Throws(r2.hd, <<"E", "r", "r", "n", "o", "E", "r", "r", "o", "r", ":", " ",
                         "N", "o", " ", "s", "u", "c", "h", " ", "f", "i", "l", "e",
                         " ", "o", "r", " ", "d", "i", "r", "e", "c", "t", "o", "r", "y">>)
  ELSE IF ~r2.ret THEN Throws(r2.hd, <<"F", "a", "i", "l", "e", "d", " ", "t", "o",
                                       " ", "m", "o", "u", "n", "t", " ", "d", "i",
                                       "r", "e", "c", "t", "o", "r", "y">>)
  ELSE IF fault = "installHangs" /\ ScriptPackages(script) # <<>>
    THEN [hd |-> downloadStarted(r2.hd, wd, ScriptPackages(script)[1]),
          thread |-> "hung", events |-> <<>>]
  ELSE
  With(installPackages(r2.m, wd, r2.hd, ScriptText(script), InstallOuts(fault)),
       LAMBDA r2i :
  IF r2i.thrown THEN Throws(r2i.hd, r2i.ret.text)
  ELSE IF ~hasInstallerToken(ScriptText(script)) /\ Loops(script)
    THEN [hd |-> r2i.hd, thread |-> "hung", events |-> <<>>]
  ELSE [hd |-> r2i.hd, thread |-> "ended",
        events |-> <<EvMessage(executePython(r2i.m, script, net).ret), EvExit(0)>>])))

----------------------------------------------------------------------------
(* runCode(code, timeout) *)

Pending == [state |-> "pending", value |-> NoResult]

resolve(p, value) ==
  IF p.state = "pending" THEN [state |-> "fulfilled", value |-> value] ELSE p

reject(p, reason) ==
  IF p.state = "pending" THEN [state |-> "rejected", value |-> reason] ELSE p

\* worker.on("message", ...)
onMessage(p, msg) == IF msg.cmd = "response" THEN resolve(p, msg.result) ELSE p

\* worker.on("error", reject)
onError(p, err) == reject(p, err)

\* The exit listener does nothing.
onExitIgnored(p, code) == p

\* worker.on("exit", ...)
onExit(p, code) ==
  IF code # 0
    THEN reject(p, JsError(<<"W", "o", "r", "k", "e", "r", " ", "s", "t", "o", "p",
                             "p", "e", "d", " ", "w", "i", "t", "h", " ", "e", "x",
                             "i", "t", " ", "c", "o", "d", "e", ":", " ">>
                             \o (IF code = 1 THEN <<"1">> ELSE <<"?">>)))
    ELSE p

TimeoutError == JsError(<<"T", "i", "m", "e", "o", "u", "t", " ", "e", "r", "r", "o", "r">>)

\* The timer callback rejects.
onTimeoutRejects(p) == reject(p, TimeoutError)

\* The timer callback does nothing.
onTimeoutSkipped(p) == p

\* setTimeout(() => resolve(new Error("Timeout error")), timeout)
onTimeout(p) == resolve(p, TimeoutError)

\* The worker is left as it is.
terminateSkipped(worker) == worker

\* worker.terminate() in the finally block
terminate(worker) == "terminated"

\* new Worker(...) and the executor of the promise: the call in flight.
NewCall(sid, obj, script) ==
  [sid |-> sid, obj |-> obj, script |-> script, worker |-> "running",
   thread |-> "started", events |-> <<>>, crashed |-> FALSE]

\* The runCode calls that may be in flight at once.
MaxInFlight == 1

CallSlots == 1..MaxInFlight

FreeSlots == CallSlots \ DOMAIN calls

----------------------------------------------------------------------------
(* The tool-call handler *)

ToolExecute == <<"p", "y", "t", "h", "o", "n", "_", "e", "x", "e", "c", "u", "t", "e">>
ToolUnknown == <<"n", "o", "p", "e">>
Missing == <<"undefined">>

\* request.params: the tool name and, when `given`, the arguments object.
Request(name, given, sessionId, code, codeType, timeoutType) ==
  [name |-> name, given |-> given, sessionId |-> sessionId, code |-> code,
   codeType |-> codeType, timeoutType |-> timeoutType]

Requests ==
  {Request(ToolExecute, TRUE, SidA, script, "string", "undefined") : script \in RunScripts}
  \cup {Request(ToolExecute, TRUE, SidEmpty, <<StmtExpr>>, "string", "number"),
        Request(ToolExecute, FALSE, Missing, <<>>, "undefined", "undefined"),
        Request(ToolExecute, TRUE, SidA, <<>>, "undefined", "undefined"),
        Request(ToolExecute, TRUE, SidA, <<StmtExpr>>, "string", "string"),
        Request(ToolUnknown, TRUE, SidA, <<StmtExpr>>, "string", "undefined"),
        Request(ToolUnknown, FALSE, Missing, <<>>, "undefined", "undefined")}

\* isExecutePythonArgs(args): code and sessionId are strings, timeout is a
\* number when present.
isExecutePythonArgs(req) ==
  /\ req.codeType = "string"
  /\ req.sessionId # Missing
  /\ req.timeoutType \in {"undefined", "number"}

\* The handler returns without going through runCode.
Answer(req, obj, result) ==
  last' = [ObserveResult("callTool", req.sessionId, obj, result)
             EXCEPT !.name = req.name, !.note = "direct"]

\* The handler up to its first await: it answers at once, or it starts
\* runCode, which spawns the worker and arms the timer.
CallTool(req) ==
  IF ~req.given
    THEN /\ Answer(req, NoObj, formatCallToolError(
                     <<"T", "y", "p", "e", "E", "r", "r", "o", "r", ":", " ", "C", "a",
                       "n", "n", "o", "t", " ", "d", "e", "s", "t", "r", "u", "c", "t",
                       "u", "r", "e", " ", "p", "r", "o", "p", "e", "r", "t", "y", " ",
                       "'", "s", "e", "s", "s", "i", "o", "n", "I", "d", "'">>))
         /\ UNCHANGED <<cwd, hostDirs, instances, mgr, calls>>
  ELSE
    /\ instances' = getInstance(instances, req.sessionId, FreshObj(req.sessionId))
    /\ IF getInstanceCreates(instances, req.sessionId)
         THEN mgr' = [o \in DOMAIN mgr \cup {FreshObj(req.sessionId)} |->
                        IF o = FreshObj(req.sessionId) THEN NewManager(req.sessionId)
                        ELSE mgr[o]]
         ELSE UNCHANGED mgr
    /\ UNCHANGED <<cwd, hostDirs>>
    /\ IF req.name = ToolExecute /\ isExecutePythonArgs(req)
         THEN /\ FreeSlots # {}
              /\ LET c == CHOOSE c \in FreeSlots : \A d \in FreeSlots : c <= d IN
                 calls' = [d \in DOMAIN calls \cup {c} |->
                             IF d = c
                               THEN NewCall(req.sessionId, instances'[req.sessionId], req.code)
                               ELSE calls[d]]
              /\ last' = [Observe("runCode", req.sessionId, instances'[req.sessionId], TRUE)
                            EXCEPT !.name = req.name]
       ELSE IF req.name = ToolExecute
         THEN /\ Answer(req, instances'[req.sessionId],
                        formatCallToolError(<<"m", "u", "s", "t", " ", "b", "e", " ",
                                              "a", " ", "s", "t", "r", "i", "n", "g">>))
              /\ UNCHANGED calls
       ELSE /\ Answer(req, instances'[req.sessionId],
                      formatCallToolError(<<"U", "n", "k", "n", "o", "w", "n", " ",
                                            "t", "o", "o", "l", ":", " ">> \o req.name))
            /\ UNCHANGED calls

\* The worker thread runs its script.
WorkerRun(c, fault, net) ==
  /\ c \in DOMAIN calls
  /\ calls[c].thread = "started"
  /\ LET w == workerScript(calls[c].sid, calls[c].script, cwd, hostDirs, fault, net) IN
     /\ hostDirs' = w.hd
     /\ calls' = [calls EXCEPT ![c].thread = w.thread, ![c].events = w.events]
  /\ UNCHANGED <<cwd, instances, mgr, last>>

\* The promise of call c after a listener or the timer callback has run: if
\* it has settled, runCode terminates the worker and returns or throws, and
\* the handler answers in the same turn of the event loop.
Continue(c, p, path, crashed) ==
  IF p.state = "pending"
    THEN /\ calls' = [calls EXCEPT ![c].events = IF path = "timer" THEN @ ELSE Tail(@),
                                   ![c].crashed = @ \/ crashed]
         /\ UNCHANGED last
  ELSE
    /\ calls' = [d \in DOMAIN calls \ {c} |-> calls[d]]
    /\ last' = [ObserveResult("callTool", calls[c].sid, calls[c].obj,
                        IF p.state = "fulfilled" THEN p.value
                        ELSE formatCallToolError(p.value.text))
                  EXCEPT !.name = ToolExecute,
                         !.code = ScriptText(calls[c].script),
                         !.note = path,
                         !.run = IF p.state = "fulfilled" THEN "returned" ELSE "thrown",
                         !.worker = terminate(calls[c].worker),
                         !.crashed = calls[c].crashed \/ crashed,
                         !.slot = c]

\* The next event of the worker reaches its listener.
Deliver(c) ==
  /\ c \in DOMAIN calls
  /\ calls[c].events # <<>>
  /\ LET e == Head(calls[c].events) IN
     CASE e.ev = "message" -> Continue(c, onMessage(Pending, e), "message", FALSE)
       [] e.ev = "error" -> Continue(c, onError(Pending, e.result), "error", TRUE)
       [] e.ev = "exit" -> Continue(c, onExit(Pending, e.code), "exit", e.code # 0)
  /\ UNCHANGED <<cwd, hostDirs, instances, mgr>>

\* The timer armed by runCode fires.
TimerFires(c) ==
  /\ c \in DOMAIN calls
  /\ Continue(c, onTimeout(Pending), "timer", FALSE)
  /\ UNCHANGED <<cwd, hostDirs, instances, mgr>>

NextRun ==
  \/ \E req \in Requests : CallTool(req)
  \/ \E c \in CallSlots, fault \in Faults, net \in NetOutcomes : WorkerRun(c, fault, net)
  \/ \E c \in CallSlots : Deliver(c)
  \/ \E c \in CallSlots : TimerFires(c)

SpecRun == InitCommon /\ [][NextRun]_vars

\* Every timer that is armed fires.
FairSpecRun == SpecRun /\ \A c \in CallSlots : WF_vars(TimerFires(c))

\* C6: whenever runCode has returned or thrown, whichever of the message,
\* the error or exit event, or the timer settled it, terminate() has been
\* called on the worker of that call.
C6_WorkerAlwaysTerminated ==
  (last.op = "callTool" /\ last.run \in {"returned", "thrown"})
    => last.worker = "terminated"

C6_Witness ==
  /\ last.op = "callTool"
  /\ last.note = "message"
  /\ last.run = "returned"
  /\ last.result = formatCallToolSuccess(<<"2">>)
  /\ last.worker = "terminated"

\* C7: a call whose worker is stuck in a script that never completes
\* eventually returns the Error "Timeout error", with its worker terminated.
C7_LoopTimesOut ==
  \A c \in CallSlots :
    (c \in DOMAIN calls /\ calls[c].thread = "hung" /\ Loops(calls[c].script))
      ~> (/\ last.op = "callTool"
          /\ last.slot = c
          /\ last.run = "returned"
          /\ last.result = TimeoutError
          /\ last.worker = "terminated")

C7_Witness ==
  /\ last.op = "callTool"
  /\ last.note = "timer"
  /\ last.code = ScriptText(<<StmtLoop>>)
  /\ last.run = "returned"
  /\ last.result = TimeoutError
  /\ last.worker = "terminated"

\* C8: once an error event or an exit with a non-zero code of the worker has
\* reached a call that was still pending, the call is not left pending:
\* runCode has thrown to its caller and the worker is terminated.
C8_CrashReported ==
  /\ \A c \in DOMAIN calls : ~calls[c].crashed
  /\ (last.op = "callTool" /\ last.crashed)
       => (last.run = "thrown" /\ last.worker = "terminated")

C8_Witness ==
  /\ last.op = "callTool"
  /\ last.note = "exit"
  /\ last.crashed
  /\ last.run = "thrown"
  /\ last.worker = "terminated"

\* C9: whatever the request, the handler answers with a content object, in
\* its success form or in its error form.
C9_WellFormedResult ==
  last.op = "callTool" => IsContent(last.result)

----------------------------------------------------------------------------
(* initialize, await by await: several requests for one session           *)

\* The initialize calls that may be suspended at an await at once.
MaxRacing == 2

InitSlots == 1..MaxRacing

\* An initialize call suspended at `await loadPyodide(...)` (pc "loading")
\* or at `await this.pyodide.runPythonAsync(...)` (pc "bootstrapping", with
\* the interpreter the bootstrap script was started on).
InitTask(o, pc, py) == [obj |-> o, pc |-> pc, py |-> py]

RemoveCall(c) == [d \in DOMAIN calls \ {c} |-> calls[d]]

\* initialize up to its first await: the guard, then the call of
\* loadPyodide.
InitCall(o) ==
  /\ o \in DOMAIN mgr
  /\ IF alreadyInitialized(mgr[o])
       THEN /\ mgr' = SetMgr(o, [mgr[o] EXCEPT !.ready = TRUE])
            /\ last' = [Observe("initialize", mgr[o].sessionId, o, TRUE)
                          EXCEPT !.note = "guard"]
            /\ UNCHANGED calls
       ELSE /\ DOMAIN calls # InitSlots
            /\ LET c == CHOOSE c \in InitSlots \ DOMAIN calls :
                          \A d \in InitSlots \ DOMAIN calls : c <= d IN
               calls' = [d \in DOMAIN calls \cup {c} |->
                           IF d = c THEN InitTask(o, "loading", NoPy) ELSE calls[d]]
            /\ UNCHANGED <<mgr, last>>
  /\ UNCHANGED <<cwd, hostDirs, instances>>

\* loadPyodide settles: on a rejection initialize returns false; otherwise
\* the handle is assigned, the host bridge is erased and the bootstrap
\* script is started on the new interpreter.
InitLoaded(c, outcome) ==
  /\ c \in DOMAIN calls
  /\ calls[c].pc = "loading"
  /\ LET o == calls[c].obj
         m == mgr[o]
         py0 == loadPyodide(<<m.sessionId, m.loads + 1>>)
         loaded == [m EXCEPT !.loads = @ + 1]
     IN
     IF outcome = "loadFails"
       THEN /\ calls' = RemoveCall(c)
            /\ last' = Observe("initialize", m.sessionId, o, FALSE)
            /\ UNCHANGED mgr
     ELSE IF outcome = "eraseFails"
       THEN /\ calls' = RemoveCall(c)
            /\ mgr' = SetMgr(o, [loaded EXCEPT !.pyodide = py0])
            /\ last' = Observe("initialize", m.sessionId, o, FALSE)
     ELSE /\ calls' = [calls EXCEPT ![c] = InitTask(o, "bootstrapping", eraseJs(py0))]
          /\ mgr' = SetMgr(o, [loaded EXCEPT !.pyodide = eraseJs(py0)])
          /\ UNCHANGED last
  /\ UNCHANGED <<cwd, hostDirs, instances>>

\* The bootstrap script settles on the interpreter it was started on; the
\* temp directory is then made on whatever interpreter the handle names by
\* now, and initialize returns.
InitBootstrapped(c, outcome) ==
  /\ c \in DOMAIN calls
  /\ calls[c].pc = "bootstrapping"
  /\ LET o == calls[c].obj
         m == mgr[o]
         mine == m.pyodide.id = calls[c].py.id
         patched == IF mine THEN bootstrap(m.pyodide) ELSE m.pyodide
     IN
     /\ calls' = RemoveCall(c)
     /\ IF outcome = "bootstrapFails"
          THEN /\ UNCHANGED mgr
               /\ last' = Observe("initialize", m.sessionId, o, FALSE)
        ELSE IF outcome = "mkdirFails"
          THEN /\ mgr' = SetMgr(o, [m EXCEPT !.pyodide = patched])
               /\ last' = Observe("initialize", m.sessionId, o, FALSE)
        ELSE /\ mgr' = SetMgr(o, [m EXCEPT !.pyodide = mkdirTree(patched, TmpDir),
                                           !.ready = TRUE])
             /\ last' = Observe("initialize", m.sessionId, o, TRUE)
  /\ UNCHANGED <<cwd, hostDirs, instances>>

NextInitRace ==
  \/ \E s \in {SidA, SidB} : GetInstance(s)
  \/ \E o \in DOMAIN mgr : InitCall(o)
  \/ \E c \in InitSlots, outcome \in {"loadFails", "eraseFails", "ok"} :
       InitLoaded(c, outcome)
  \/ \E c \in InitSlots, outcome \in {"bootstrapFails", "mkdirFails", "ok"} :
       InitBootstrapped(c, outcome)

SpecInitRace == InitCommon /\ [][NextInitRace]_vars

\* C11: however the requests for a session id interleave, one manager
\* object is constructed for the id and the interpreter is instantiated at
\* most once for it.
C11_NoDoubleInitialization ==
  \A o \in DOMAIN mgr :
    /\ Cardinality({p \in DOMAIN mgr : mgr[p].sessionId = mgr[o].sessionId}) = 1
    /\ mgr[o].loads <= 1

----------------------------------------------------------------------------
(* initialize called again *)

\* C13: initialize called on a manager on which initialize has already
\* returned true returns true again and changes nothing: no interpreter is
\* instantiated, no bootstrap script is run, no directory is made and the
\* handle is the one it was.
C13_InitializeIdempotent ==
  [][\A o \in DOMAIN mgr, outcome \in InitOutcomes :
       (mgr[o].ready /\ Initialize(o, outcome)) => (last'.ret /\ mgr' = mgr)]_vars

\* A second initialize has returned true through the guard on a manager
\* whose first initialize completed the whole setup.
C13_Witness ==
  /\ last.op = "initialize"
  /\ last.note = "guard"
  /\ last.ret
  /\ mgr[last.obj].loads = 1
  /\ mgr[last.obj].pyodide = mkdirTree(bootstrap(eraseJs(loadPyodide(<<SidA, 1>>))), TmpDir)

\* C14: an initialize that has returned false has left the manager without
\* an interpreter handle, so that the next initialize does the whole setup.
C14_FailedInitializeLeavesNoHandle ==
  (last.op = "initialize" /\ ~last.ret) => mgr[last.obj].pyodide = NoPy

----------------------------------------------------------------------------
(* The interpreters of a session: the host's and the workers' *)

\* The worker of call c has initialized the interpreter of its own
\* PyodideManager and is still inside executePython or installPackages: the
\* interpreter lives until the thread is terminated.
WorkerHoldsInterpreter(c) == calls[c].worker = "running" /\ calls[c].thread = "hung"

\* The interpreters initialized for session sid at this moment, in the host
\* process and in the worker threads.
Interpreters(sid) ==
  {<<"host", o>> : o \in {p \in DOMAIN mgr : mgr[p].sessionId = sid
                                             /\ alreadyInitialized(mgr[p])}}
    \cup {<<"worker", <<sid, c>>>> : c \in {d \in DOMAIN calls : calls[d].sid = sid
                                                         /\ WorkerHoldsInterpreter(d)}}

\* The host initializes the interpreter of a session's manager and serves
\* python_execute requests for the session through runCode.
NextSession ==
  \/ GetInstance(SidA)
  \/ \E o \in DOMAIN mgr, outcome \in {"loadFails", "ok"} : Initialize(o, outcome)
  \/ \E req \in {r \in Requests : r.given /\ r.name = ToolExecute} : CallTool(req)
  \/ \E c \in CallSlots, fault \in {"none", "loadFails"} : WorkerRun(c, fault, "returns")
  \/ \E c \in CallSlots : Deliver(c)
  \/ \E c \in CallSlots : TimerFires(c)

SpecSession == InitCommon /\ [][NextSession]_vars

\* C12: at every moment there is at most one initialized interpreter for a
\* session id, counting the host process and every worker thread.
C12_OneInterpreterPerSession ==
  \A sid \in SessionIds : Cardinality(Interpreters(sid)) <= 1

----------------------------------------------------------------------------
(* The manager used directly: packages and listings *)

NextInstall ==
  \/ GetInstance(SidA)
  \/ \E o \in DOMAIN mgr, outcome \in {"loadFails", "ok"} : Initialize(o, outcome)
  \/ \E o \in DOMAIN mgr : MountDirectory(o, FALSE, "none")
  \/ \E o \in DOMAIN mgr : ExecutePython(o, <<StmtExpr>>, "returns")
  \/ \E o \in DOMAIN mgr : ListMountedDirectory(o)
  \/ \E o \in DOMAIN mgr, packageName \in PackageNames, outs \in OutcomeSeqs :
       InstallPackage(o, packageName, outs)
  \/ \E o \in DOMAIN mgr, script \in InstallScripts, outs \in OutcomeSeqs :
       InstallPackages(o, script, outs)

SpecInstall == InitCommon /\ [][NextInstall]_vars

\* C15: executePython, listMountedDirectory, installPackage and
\* installPackages called on a manager that has no interpreter return the
\* "Pyodide not initialized" error result and do not throw (mountDirectory
\* returns false).
C15_UninitializedUseReturnsError ==
  /\ (/\ last.op \in {"executePython", "listMountedDirectory", "installPackage",
                      "installPackages"}
      /\ ~alreadyInitialized(mgr[last.obj]))
       => (last.run # "thrown" /\ last.result = formatCallToolError(NotInitialized))
  /\ (last.op = "mountDirectory" /\ ~alreadyInitialized(mgr[last.obj])) => ~last.ret

\* C19: installPackage given several package names tries every permitted
\* one of them, whatever happened to those before it, and returns the log
\* of what happened.
C19_RemainingPackagesAttempted ==
  (last.op = "installPackage" /\ last.run = "returned"
     /\ permittedPackages(last.name) # <<>>)
    => (last.ran = Len(permittedPackages(last.name)) /\ ~last.result.isError)

----------------------------------------------------------------------------
(* The worker pipeline for scripts that name packages *)

PipelineScripts == {<<StmtImportOs>>, <<StmtImportOs, StmtFromPathlib>>, <<StmtImportJson>>}

PipelineRequests ==
  {Request(ToolExecute, TRUE, sid, script, "string", "undefined") :
     sid \in {SidA, SidB}, script \in PipelineScripts}

NextPipeline ==
  \/ \E req \in PipelineRequests : CallTool(req)
  \/ \E c \in CallSlots, fault \in InstallFaults, net \in NetOutcomes :
       WorkerRun(c, fault, net)
  \/ \E c \in CallSlots : Deliver(c)
  \/ \E c \in CallSlots : TimerFires(c)

SpecPipeline == InitCommon /\ [][NextPipeline]_vars

----------------------------------------------------------------------------
(* After a refused script *)

PackageInstallationDisabled == <<"P", "a", "c", "k", "a", "g", "e", " ", "i", "n", "s",
                                 "t", "a", "l", "l", "a", "t", "i", "o", "n", " ", "d",
                                 "i", "s", "a", "b", "l", "e", "d">>

\* C16: when executePython on a ready manager returns the error of a
\* disabled network call or of the installer token, the manager still has
\* the same interpreter, with the same network patches, the same mounts and
\* the same sandbox directories.
C16_PolicyViolationRecoverable ==
  [][\A o \in DOMAIN mgr, script \in ExecScripts, net \in NetOutcomes :
       (/\ mgr[o].ready
        /\ ExecutePython(o, script, net)
        /\ last'.result.isError
        /\ \/ Includes(last'.result.text, NetworkDisabled)
           \/ last'.result.text = PackageInstallationDisabled)
         => /\ mgr'[o].ready
            /\ mgr'[o].pyodide.id = mgr[o].pyodide.id
            /\ mgr'[o].pyodide.attrs = mgr[o].pyodide.attrs
            /\ mgr'[o].pyodide.binds = mgr[o].pyodide.binds
            /\ mgr'[o].pyodide.fsDirs = mgr[o].pyodide.fsDirs]_vars

----------------------------------------------------------------------------
(* executePython(code, timeout): the script in a race with a timer, on the  *)
(* thread of the caller                                                    *)

StmtAwaitSleep == Stmt(<<"a", "w", "a", "i", "t", " ", "a", "s", "y", "n", "c", "i",
                         "o", ".", "s", "l", "e", "e", "p", "(", "6", "0", ")">>, "await", Null)

ExecutionTimeout == <<"E", "x", "e", "c", "u", "t", "i", "o", "n", " ", "t", "i", "m",
                      "e", "o", "u", "t">>

\* The index of the first statement at which the script gives the thread
\* back, 0 if there is none.
AwaitAt(script) ==
  IF \E i \in DOMAIN script : script[i].kind = "await"
    THEN CHOOSE i \in DOMAIN script :
           /\ script[i].kind = "await"
           /\ \A j \in DOMAIN script : script[j].kind = "await" => i <= j
    ELSE 0

\* A call whose script is suspended at an await, or holds the thread in a
\* loop; `answered` once the race has been settled by the timer.
TimedCall(o, script, pc) == [obj |-> o, script |-> script, pc |-> pc, answered |-> FALSE]

\* The one thread of the process is not held by a script.
ThreadFree == \A c \in DOMAIN calls : calls[c].pc # "blocked"

StartTimed(o, script, pc) ==
  /\ FreeSlots # {}
  /\ LET c == CHOOSE c \in FreeSlots : \A d \in FreeSlots : c <= d IN
     calls' = [d \in DOMAIN calls \cup {c} |->
                 IF d = c THEN TimedCall(o, script, pc) ELSE calls[d]]

AnswerTimed(o, script, result) ==
  last' = [ObserveResult("executePython", mgr[o].sessionId, o, result)
             EXCEPT !.code = ScriptText(script)]

\* executePython(code, timeout) up to the point where the thread is given
\* back: the two refusals; then runPythonAsync runs the script until it
\* returns, raises, awaits, or for ever.
ExecutePythonTimed(o, script, net) ==
  /\ o \in DOMAIN mgr
  /\ ThreadFree
  /\ LET m == mgr[o]
         k == AwaitAt(script)
         r == runPythonAsync(m.pyodide, SubSeq(script, 1, k - 1), net)
         done == executePython(m, script, net)
     IN
     IF m.pyodide = NoPy \/ hasInstallerToken(ScriptText(script))
       THEN /\ AnswerTimed(o, script, done.ret)
            /\ UNCHANGED <<mgr, calls>>
     ELSE IF Loops(script)
       THEN /\ StartTimed(o, script, "blocked")
            /\ UNCHANGED <<mgr, last>>
     ELSE IF k = 0
       THEN /\ AnswerTimed(o, script, done.ret)
            /\ mgr' = SetMgr(o, done.m)
            /\ UNCHANGED calls
     ELSE IF r.raised
       THEN /\ AnswerTimed(o, script, formatCallToolError(r.text))
            /\ mgr' = SetMgr(o, [m EXCEPT !.pyodide = r.py])
            /\ UNCHANGED calls
     ELSE /\ StartTimed(o, script, "suspended")
          /\ mgr' = SetMgr(o, [m EXCEPT !.pyodide = r.py])
          /\ UNCHANGED last
  /\ UNCHANGED <<cwd, hostDirs, instances>>

\* The callback of setTimeout runs: the race is lost by the script, and the
\* catch block makes the error result. The script stays suspended.
TimerExpires(c) ==
  /\ c \in DOMAIN calls
  /\ ThreadFree
  /\ calls[c].pc = "suspended"
  /\ ~calls[c].answered
  /\ calls' = [calls EXCEPT ![c].answered = TRUE]
  /\ AnswerTimed(calls[c].obj, calls[c].script, formatCallToolError(ExecutionTimeout))
  /\ UNCHANGED <<cwd, hostDirs, instances, mgr>>

\* The awaited thing is done and the script runs to its end. If the race is
\* still open the globals are cleared and the result is returned; after the
\* timer nobody waits for the script, and what it does is left as it is.
ScriptResumes(c, net) ==
  /\ c \in DOMAIN calls
  /\ ThreadFree
  /\ calls[c].pc = "suspended"
  /\ LET o == calls[c].obj
         script == calls[c].script
         r == runPythonAsync(mgr[o].pyodide,
                             SubSeq(script, AwaitAt(script) + 1, Len(script)), net)
     IN
     /\ calls' = RemoveCall(c)
     /\ IF calls[c].answered
          THEN /\ mgr' = SetMgr(o, [mgr[o] EXCEPT !.pyodide = r.py])
               /\ UNCHANGED last
        ELSE IF r.raised
          THEN /\ mgr' = SetMgr(o, [mgr[o] EXCEPT !.pyodide = r.py])
               /\ AnswerTimed(o, script, formatCallToolError(r.text))
        ELSE /\ mgr' = SetMgr(o, [mgr[o] EXCEPT !.pyodide = cleanup(r.py)])
             /\ AnswerTimed(o, script,
                            formatCallToolSuccess(successText(r.output, r.text)))
  /\ UNCHANGED <<cwd, hostDirs, instances>>

TimedScripts ==
  {<<StmtExpr>>, <<StmtLoop>>, <<StmtAwaitSleep>>, <<StmtImportMicropip>>,
   <<StmtBind, StmtAwaitSleep, StmtExpr>>, <<StmtAwaitSleep, StmtRaise>>}

NextTimed ==
  \/ \E s \in {SidA, SidB} : ThreadFree /\ GetInstance(s)
  \/ \E o \in DOMAIN mgr, outcome \in {"loadFails", "ok"} :
       ThreadFree /\ Initialize(o, outcome)
  \/ \E o \in DOMAIN mgr, script \in TimedScripts : ExecutePythonTimed(o, script, "returns")
  \/ \E c \in CallSlots : TimerExpires(c)
  \/ \E c \in CallSlots : ScriptResumes(c, "returns")

SpecTimed == InitCommon /\ [][NextTimed]_vars

\* A timer that is armed fires once the thread is free to run its callback.
FairSpecTimed == SpecTimed /\ \A c \in CallSlots : WF_vars(TimerExpires(c))

\* C18: every executePython(code, timeout) call whose script has not
\* completed is answered, by the timer at the latest.
C18_TimedCallAnswered ==
  \A c \in CallSlots :
    (c \in DOMAIN calls /\ ~calls[c].answered)
      ~> (c \notin DOMAIN calls \/ calls[c].answered)

----------------------------------------------------------------------------
(* What an install tells its caller *)

\* C21: the text installPackage returns holds the outcome of every package
\* it tried, from the first on, also when a later package has failed.
C21_OutcomesReported ==
  (last.op = "installPackage" /\ last.run = "returned" /\ last.ran > 0)
    => Includes(last.result.text,
                <<"A", "t", "t", "e", "m", "p", "t", "i", "n", "g", " ", "t", "o", " ",
                  "i", "n", "s", "t", "a", "l", "l", " ">> \o permittedPackages(last.name)[1]
                  \o <<" ", "u", "s", "i", "n", "g", " ", "l", "o", "a", "d", "P", "a",
                       "c", "k", "a", "g", "e", ".", ".", ".">>)

\* C22: a name outside preInstalledPackages is never tried: no line of the
\* returned text names it, no wheel of it reaches the cache directory, and
\* it does not count among the packages attempted.
C22_OnlyPermittedInstalled ==
  /\ \A pkg \in {<<"r", "e", "q", "u", "e", "s", "t", "s">>, <<"j", "s", "o", "n">>} :
       /\ ~SeqHas(preInstalledPackages, pkg)
       /\ WheelPath(cwd, pkg) \notin hostDirs
       /\ last.op = "installPackage" => ~Includes(last.result.text, pkg)
  /\ (last.op = "installPackage" /\ last.name = <<"r", "e", "q", "u", "e", "s", "t", "s">>) => last.ran = 0
  /\ (last.op = "installPackage" /\ last.name = <<"o", "s", " ", "r", "e", "q", "u",
                                                  "e", "s", "t", "s", " ", "p", "a",
                                                  "t", "h", "l", "i", "b">>)
       => last.ran <= 2
  /\ (last.op = "installPackages"
        /\ last.code = ScriptText(<<StmtCommentImport, StmtImportJson>>))
       => last.ran = 0

\* An install of "os requests pathlib" has tried os and pathlib, the first
\* through the fallback.
C22_Witness ==
  /\ last.op = "installPackage" /\ last.run = "returned"
  /\ last.name = <<"o", "s", " ", "r", "e", "q", "u", "e", "s", "t", "s", " ", "p",
                   "a", "t", "h", "l", "i", "b">>
  /\ last.ran = 2 /\ ~last.result.isError
  /\ WheelPath(cwd, <<"o", "s">>) \in hostDirs
  /\ Includes(last.result.text, <<"i", "n", "s", "t", "a", "l", "l", "e", "d", " ",
                                  "p", "a", "t", "h", "l", "i", "b">>)

\* String.prototype.indexOf counted from 1, 0 when there is none.
indexOf(s, w) ==
  LET hits == {i \in 1..Len(s) : HasAt(s, i, w)} IN
  IF hits = {} THEN 0 ELSE CHOOSE i \in hits : \A j \in hits : i <= j

\* C30: in the log of an install that returned, a package whose loadPackage
\* went through has no fallback line and gains no wheel in the cache
\* directory, and a package that has a fallback line has the failure of its
\* loadPackage logged before it, after the attempt itself.
C30_NativeLoadFirst ==
  [][(last'.op = "installPackage" /\ last'.run = "returned"
        /\ ~last'.result.isError)
       => \A p \in {<<"o", "s">>, <<"p", "a", "t", "h", "l", "i", "b">>} :
            LET t == last'.result.text
                attempt == <<"A", "t", "t", "e", "m", "p", "t", "i", "n", "g", " ",
                             "t", "o", " ", "i", "n", "s", "t", "a", "l", "l", " ">> \o p
                             \o <<" ", "u", "s", "i", "n", "g", " ", "l", "o", "a",
                                  "d", "P", "a", "c", "k", "a", "g", "e", ".", ".", ".">>
                native == <<"S", "u", "c", "c", "e", "s", "s", "f", "u", "l", "l", "y",
                            " ", "i", "n", "s", "t", "a", "l", "l", "e", "d", " ">> \o p
                            \o <<" ", "u", "s", "i", "n", "g", " ", "l", "o", "a", "d",
                                 "P", "a", "c", "k", "a", "g", "e", ".">>
                refused == <<"l", "o", "a", "d", "P", "a", "c", "k", "a", "g", "e",
                             " ", "f", "a", "i", "l", "e", "d", " ", "f", "o", "r", " ">> \o p
                falling == <<"F", "a", "l", "l", "i", "n", "g", " ", "b", "a", "c",
                             "k", " ", "t", "o", " ", "m", "i", "c", "r", "o", "p",
                             "i", "p", " ", "f", "o", "r", " ">> \o p
                wheel == <<"D", "o", "w", "n", "l", "o", "a", "d", "i", "n", "g", " ",
                           "w", "h", "e", "e", "l", " ", "f", "o", "r", " ">> \o p
            IN
            /\ Includes(t, native)
                 => /\ ~Includes(t, falling) /\ ~Includes(t, wheel)
                    /\ WheelPath(cwd, p) \in hostDirs'
                         => WheelPath(cwd, p) \in hostDirs
            /\ (Includes(t, falling) \/ Includes(t, wheel))
                 => /\ 0 < indexOf(t, attempt)
                    /\ indexOf(t, attempt) < indexOf(t, refused)
                    /\ indexOf(t, refused) < indexOf(t, falling)
                    /\ indexOf(t, wheel) = 0
                         \/ indexOf(t, falling) < indexOf(t, wheel)]_vars

\* One install in which os went through the fallback and pathlib was loaded
\* natively.
C30_Witness ==
  /\ last.op = "installPackage" /\ last.run = "returned"
  /\ last.name = <<"o", "s", " ", "r", "e", "q", "u", "e", "s", "t", "s", " ", "p",
                   "a", "t", "h", "l", "i", "b">>
  /\ ~last.result.isError
  /\ Includes(last.result.text, <<"S", "u", "c", "c", "e", "s", "s", "f", "u", "l",
                                  "l", "y", " ", "i", "n", "s", "t", "a", "l", "l",
                                  "e", "d", " ", "p", "a", "t", "h", "l", "i", "b",
                                  " ", "u", "s", "i", "n", "g", " ", "l", "o", "a",
                                  "d", "P", "a", "c", "k", "a", "g", "e", ".">>)
  /\ Includes(last.result.text, <<"D", "o", "w", "n", "l", "o", "a", "d", "i", "n",
                                  "g", " ", "w", "h", "e", "e", "l", " ", "f", "o",
                                  "r", " ", "o", "s">>)
  /\ WheelPath(cwd, <<"o", "s">>) \in hostDirs
  /\ WheelPath(cwd, <<"p", "a", "t", "h", "l", "i", "b">>) \notin hostDirs

----------------------------------------------------------------------------
(* The wheel cache under concurrent installs *)

\* A fallback suspended at `await downloadWheel(wheelUrl, localWheelPath)`
\* (pc "writing"), or resumed and about to read the file (pc "finished").
\* `intact` says that every byte the stream writes ends up in the file at
\* the path; `file` is what the file at the path holds.
WheelTask(pkg, pc, intact, file) ==
  [pkg |-> pkg, pc |-> pc, intact |-> intact, file |-> file]

\* The other calls on the same path after the file was truncated or
\* unlinked: their streams no longer make up the file.
Disturb(pkg, file) ==
  [d \in DOMAIN calls |->
     IF calls[d].pkg = pkg
       THEN [calls[d] EXCEPT !.intact = FALSE, !.file = file]
       ELSE calls[d]]

SetFile(cs, pkg, file) ==
  [d \in DOMAIN cs |->
     IF cs[d].pkg = pkg THEN [cs[d] EXCEPT !.file = file] ELSE cs[d]]

\* downloadWheel up to the request: the directory is made and
\* fs.createWriteStream(destPath) creates the file at the final path, or
\* truncates the one that is there.
DownloadWheel(c, pkg) ==
  /\ c \in InitSlots \ DOMAIN calls
  /\ \A d \in InitSlots \ DOMAIN calls : c <= d
  /\ hostDirs' = hostDirs \cup Ancestors(pathResolve(cwd, CacheDir))
                   \cup {WheelPath(cwd, pkg)}
  /\ calls' = [d \in DOMAIN calls \cup {c} |->
                 IF d = c THEN WheelTask(pkg, "writing", TRUE, "partial")
                 ELSE Disturb(pkg, "partial")[d]]
  /\ last' = [Observe("downloadWheel", <<>>, NoObj, TRUE)
                EXCEPT !.name = pkg, !.slot = c]
  /\ UNCHANGED <<cwd, instances, mgr>>

\* file.on("finish"): the stream has written the whole response; the
\* promise resolves. A stream whose file was truncated under it leaves
\* either content behind.
WheelFinish(c, content) ==
  /\ c \in DOMAIN calls /\ calls[c].pc = "writing"
  /\ LET t == calls[c]
         file == IF t.intact THEN "complete"
                 ELSE IF WheelPath(cwd, t.pkg) \in hostDirs /\ t.file = "partial"
                   THEN content
                 ELSE t.file
     IN
     /\ calls' = [SetFile(calls, t.pkg, file) EXCEPT ![c].pc = "finished"]
     /\ last' = [Observe("downloadWheel", <<>>, NoObj, TRUE)
                   EXCEPT !.name = t.pkg, !.slot = c, !.run = "returned"]
  /\ UNCHANGED <<cwd, hostDirs, instances, mgr>>

\* A response whose status is 301 or 302: the file is unlinked and
\* downloadWheel starts again on the same path.
WheelRedirect(c) ==
  /\ c \in DOMAIN calls /\ calls[c].pc = "writing"
  /\ LET t == calls[c] IN
     IF WheelPath(cwd, t.pkg) \in hostDirs
       THEN /\ calls' = [Disturb(t.pkg, "partial") EXCEPT ![c].intact = TRUE]
            /\ last' = [Observe("downloadWheel", <<>>, NoObj, TRUE)
                          EXCEPT !.name = t.pkg, !.slot = c, !.note = "redirect"]
       ELSE /\ calls' = RemoveCall(c)
            /\ last' = [Observe("downloadWheel", <<>>, NoObj, FALSE)
                          EXCEPT !.name = t.pkg, !.slot = c, !.crashed = TRUE]
  /\ UNCHANGED <<cwd, hostDirs, instances, mgr>>

\* A response whose status is not 200: the promise is rejected and the
\* file the stream created stays where it is.
WheelStatus(c) ==
  /\ c \in DOMAIN calls /\ calls[c].pc = "writing"
  /\ calls' = RemoveCall(c)
  /\ last' = [Observe("downloadWheel", <<>>, NoObj, FALSE)
                EXCEPT !.name = calls[c].pkg, !.slot = c, !.run = "thrown"]
  /\ UNCHANGED <<cwd, hostDirs, instances, mgr>>

\* request.on("error") and file.on("error"): fs.unlinkSync(destPath), then
\* reject. unlinkSync throws in the listener when the file is gone.
WheelError(c) ==
  /\ c \in DOMAIN calls /\ calls[c].pc = "writing"
  /\ LET t == calls[c] IN
     /\ hostDirs' = hostDirs \ {WheelPath(cwd, t.pkg)}
     /\ calls' = [d \in DOMAIN calls \ {c} |-> Disturb(t.pkg, "partial")[d]]
     /\ last' = [Observe("downloadWheel", <<>>, NoObj, FALSE)
                   EXCEPT !.name = t.pkg, !.slot = c,
                          !.run = IF WheelPath(cwd, t.pkg) \in hostDirs
                                    THEN "thrown" ELSE Null,
                          !.crashed = WheelPath(cwd, t.pkg) \notin hostDirs]
  /\ UNCHANGED <<cwd, instances, mgr>>

\* installPackage resumed after the download:
\* fs.readFileSync(localWheelPath).
ReadWheel(c) ==
  /\ c \in DOMAIN calls /\ calls[c].pc = "finished"
  /\ LET t == calls[c] IN
     /\ calls' = RemoveCall(c)
     /\ last' = [Observe("readFileSync", <<>>, NoObj,
                         WheelPath(cwd, t.pkg) \in hostDirs)
                   EXCEPT !.name = t.pkg, !.slot = c,
                          !.note = IF WheelPath(cwd, t.pkg) \in hostDirs
                                     THEN t.file ELSE "missing",
                          !.run = IF WheelPath(cwd, t.pkg) \in hostDirs
                                    THEN "returned" ELSE "thrown"]
  /\ UNCHANGED <<cwd, hostDirs, instances, mgr>>

NextWheel ==
  \/ \E c \in InitSlots, pkg \in {<<"o", "s">>, <<"p", "a", "t", "h", "l", "i", "b">>} : DownloadWheel(c, pkg)
  \/ \E c \in InitSlots, content \in {"partial", "complete"} : WheelFinish(c, content)
  \/ \E c \in InitSlots : WheelRedirect(c)
  \/ \E c \in InitSlots : WheelStatus(c)
  \/ \E c \in InitSlots : WheelError(c)
  \/ \E c \in InitSlots : ReadWheel(c)

SpecWheel == InitCommon /\ [][NextWheel]_vars

\* C24: whatever installs run at once, the wheel an install reads from the
\* cache directory is there and is whole.
C24_ReaderSeesWholeWheel ==
  last.op = "readFileSync" => last.note = "complete"

\* C26: listMountedDirectory on a session whose mount point is not in the
\* sandbox returns an error result.
C26_UnmountedListingIsError ==
  (last.op = "listMountedDirectory"
     /\ getSessionMountPoint(mgr[last.obj]) \notin mgr[last.obj].pyodide.fsDirs)
    => last.result.isError

----------------------------------------------------------------------------
(* Scripts run while initialize is in flight or has failed *)

NextInitExec ==
  \/ GetInstance(SidA)
  \/ \E o \in DOMAIN mgr : InitCall(o)
  \/ \E c \in InitSlots, outcome \in {"loadFails", "eraseFails", "ok"} :
       InitLoaded(c, outcome)
  \/ \E c \in InitSlots, outcome \in {"bootstrapFails", "mkdirFails", "ok"} :
       InitBootstrapped(c, outcome)
  \/ \E o \in DOMAIN mgr, script \in {<<StmtCallSocket>>, <<StmtExpr>>},
        net \in NetOutcomes :
       ExecutePython(o, script, net)

SpecInitExec == InitCommon /\ [][NextInitExec]_vars

\* C27: a script that was run has run on an interpreter whose js bridge is
\* erased and whose network primitives are all rebound.
C27_PolicyBeforeScript ==
  (last.op = "executePython" /\ last.ran > 0)
    => /\ mgr[last.obj].pyodide.js = "undefined"
       /\ \A p \in Prims : mgr[last.obj].pyodide.attrs[p] = "blocked"

\* C29: once a manager has an interpreter handle, every later step leaves
\* the manager with that same interpreter.
C29_ReadyIsAbsorbing ==
  [][\A o \in DOMAIN mgr :
       alreadyInitialized(mgr[o])
         => /\ o \in DOMAIN mgr'
            /\ mgr'[o].pyodide.id = mgr[o].pyodide.id]_vars

----------------------------------------------------------------------------
(* The order of the worker script *)

\* The worker script of src/pyodide-worker.js, from its first line to the
\* end of the thread: the manager comes from the registry of the thread,
\* the result of mountDirectory("data", "data") is not looked at, and no
\* package is installed.
workerScriptRegistry(sid, script, wd, hd, fault, net) ==
  IF sid = <<>> \/ sid = <<"undefined">> THEN Throws(hd,
      <<"s", "e", "s", "s", "i", "o", "n", "I", "d", " ", "i", "s", " ", "r", "e", "q",
        "u", "i", "r", "e", "d">>)
  ELSE
  With(initialize(NewManager(sid), IF fault = "loadFails" THEN fault ELSE "ok"),
       LAMBDA r1 :
  IF ~r1.ret THEN Throws(hd, <<"F", "a", "i", "l", "e", "d", " ", "t", "o", " ", "i",
                               "n", "i", "t", "i", "a", "l", "i", "z", "e", " ", "P",
                               "y", "o", "d", "i", "d", "e">>)
  ELSE
  With(mountDirectoryAt(r1.m, wd, hd, PathData, PathData, fault = "hostMkdir",
                        IF fault \in {"mkdirTree", "mount"} THEN fault ELSE "none"),
       LAMBDA r2 :
  IF ~hasInstallerToken(ScriptText(script)) /\ Loops(script)
    THEN [hd |-> r2.hd, thread |-> "hung", events |-> <<>>]
  ELSE [hd |-> r2.hd, thread |-> "ended",
        events |-> <<EvMessage(executePython(r2.m, script, net).ret), EvExit(0)>>]))

WorkerRunRegistry(c, fault, net) ==
  /\ c \in DOMAIN calls
  /\ calls[c].thread = "started"
  /\ LET w == workerScriptRegistry(calls[c].sid, calls[c].script, cwd, hostDirs,
                                   fault, net) IN
     /\ hostDirs' = w.hd
     /\ calls' = [calls EXCEPT ![c].thread = w.thread, ![c].events = w.events]
  /\ UNCHANGED <<cwd, instances, mgr, last>>

WorkerFaults == {"none", "loadFails", "hostMkdir", "mkdirTree", "mount",
                 "installHangs", "installFails"}

\* python_execute requests served by either worker script.
NextWorker ==
  \/ \E script \in {<<StmtImportOs>>, <<StmtExpr>>, <<StmtRaise>>} :
       CallTool(Request(ToolExecute, TRUE, SidA, script, "string", "undefined"))
  \/ \E c \in CallSlots, fault \in WorkerFaults : WorkerRun(c, fault, "returns")
  \/ \E c \in CallSlots, fault \in WorkerFaults \ {"installHangs", "installFails"} :
       WorkerRunRegistry(c, fault, "returns")
  \/ \E c \in CallSlots : Deliver(c)
  \/ \E c \in CallSlots : TimerFires(c)

SpecWorker == InitCommon /\ [][NextWorker]_vars

\* C28: a worker posts at most one message, and posts it only as the last
\* thing it does: when initialize or mountDirectory has failed no message
\* is posted and the script is not run; when a download of installPackages
\* does not end, the session directory is mounted and no message is posted;
\* a message is followed by the exit alone.
C28_PipelineOrder ==
  [][\A c \in CallSlots, fault \in WorkerFaults :
       (WorkerRun(c, fault, "returns") \/ WorkerRunRegistry(c, fault, "returns"))
         => LET ev == calls'[c].events
                msgs == {i \in DOMAIN ev : ev[i].ev = "message"}
                dir == pathResolve(cwd, hostPath \o Slash \o calls[c].sid)
            IN
            /\ Cardinality(msgs) <= 1
            /\ fault = "loadFails" => msgs = {} /\ hostDirs' = hostDirs
            /\ fault \in {"mkdirTree", "mount"} => msgs = {}
            /\ (fault = "hostMkdir" /\ hostDirs' = hostDirs) => msgs = {}
            /\ (WorkerRun(c, fault, "returns") /\ fault = "installHangs"
                  /\ ScriptPackages(calls[c].script) # <<>>)
                 => /\ msgs = {} /\ calls'[c].thread = "hung"
                    /\ dir \in hostDirs'
            /\ msgs # {}
                 => /\ calls'[c].thread = "ended"
                    /\ Len(ev) = 2 /\ ev[1].ev = "message" /\ ev[2] = EvExit(0)]_vars

----------------------------------------------------------------------------
(* One worker for each call *)

NextIsolation ==
  \/ \E sid \in {SidA, SidB},
        script \in {<<StmtReloadSocket, StmtCallSocket>>, <<StmtCallSocket>>,
                    <<StmtBind>>} :
       CallTool(Request(ToolExecute, TRUE, sid, script, "string", "undefined"))
  \/ \E c \in CallSlots, net \in NetOutcomes : WorkerRun(c, "none", net)
  \/ \E c \in CallSlots : Deliver(c)
  \/ \E c \in CallSlots : TimerFires(c)

SpecIsolation == InitCommon /\ [][NextIsolation]_vars

----------------------------------------------------------------------------
(* installPackages at the level of its awaits *)

\* One installPackage call of installPackages: suspended at
\* `await this.pyodide.loadPackage(pkg)` (pc "native"), at an await of the
\* fallback (pc "download", `tries` counting the runs of the fallback that
\* have thrown), or returned (pc "done", with what became of the package).
InstallTask(pkg, pc, tries, out) == [pkg |-> pkg, pc |-> pc, tries |-> tries, out |-> out]

\* A join that does not wait for the slowest.
anySettled(cs) == \E c \in DOMAIN cs : cs[c].pc = "done"

\* Promise.all is fulfilled when each of its promises is.
allSettled(cs) == \A c \in DOMAIN cs : cs[c].pc = "done"

\* installPackages(code) up to `await Promise.all(installer)`: the map calls
\* installPackage for each name, and each call runs to its first await. A
\* name that is not permitted, or is blank, has nothing to await.
InstallPackagesStart(o, script) ==
  /\ o \in DOMAIN mgr
  /\ calls = EmptyMap
  /\ LET packages == extractPythonPackages(ScriptText(script)) IN
     IF packages = <<>>
       THEN /\ calls' = calls
            /\ last' = [ObserveResult("installPackages", mgr[o].sessionId, o, NoResult)
                          EXCEPT !.code = ScriptText(script), !.run = "returned"]
     ELSE IF mgr[o].pyodide = NoPy
       THEN /\ calls' = calls
            /\ last' = [ObserveResult("installPackages", mgr[o].sessionId, o,
                                      JsError(NotInitialized))
                          EXCEPT !.code = ScriptText(script), !.run = "thrown"]
     ELSE /\ calls' = [i \in 1..Len(packages) |->
                         IF permittedPackages(packages[i]) = <<>>
                           THEN InstallTask(packages[i], "done", 0, "none")
                           ELSE InstallTask(packages[i], "native", 0, "pending")]
          /\ last' = [ObserveResult("installPackages", mgr[o].sessionId, o, NoResult)
                        EXCEPT !.code = ScriptText(script), !.run = "pending"]
  /\ UNCHANGED <<cwd, hostDirs, instances, mgr>>

\* loadPackage(pkg) settles: the package is loaded and the call returns, or
\* the fallback begins: the cache directory is made and the download starts.
NativeSettles(c, ok) ==
  /\ c \in DOMAIN calls /\ calls[c].pc = "native"
  /\ IF ok
       THEN /\ calls' = [calls EXCEPT ![c].pc = "done", ![c].out = "loaded"]
            /\ UNCHANGED hostDirs
       ELSE /\ calls' = [calls EXCEPT ![c].pc = "download"]
            /\ hostDirs' = hostDirs \cup Ancestors(pathResolve(cwd, CacheDir))
  /\ UNCHANGED <<cwd, instances, mgr, last>>

\* The fallback of a package settles: the wheel is in the cache directory
\* and installed; or it has thrown, and the catch block runs it once more;
\* or it has thrown for the second time and the call returns the error.
DownloadSettles(c, ok) ==
  /\ c \in DOMAIN calls /\ calls[c].pc = "download"
  /\ IF ok
       THEN /\ calls' = [calls EXCEPT ![c].pc = "done", ![c].out = "fallback"]
            /\ hostDirs' = hostDirs \cup {WheelPath(cwd, calls[c].pkg)}
       ELSE /\ calls' = IF calls[c].tries = 0
                          THEN [calls EXCEPT ![c].tries = 1]
                          ELSE [calls EXCEPT ![c].pc = "done", ![c].out = "failed"]
            /\ UNCHANGED hostDirs
  /\ UNCHANGED <<cwd, instances, mgr, last>>

\* `await Promise.all(installer)` resumes and installPackages returns.
InstallPackagesJoin ==
  /\ calls # EmptyMap
  /\ allSettled(calls)
  /\ calls' = EmptyMap
  /\ last' = [Observe("installPackages", <<>>, NoObj, TRUE)
                EXCEPT !.run = "returned",
                       !.ran = Cardinality({c \in DOMAIN calls :
                                              calls[c].out \in {"loaded", "fallback"}})]
  /\ UNCHANGED <<cwd, hostDirs, instances, mgr>>

NextInstallJoin ==
  \/ GetInstance(SidA)
  \/ \E o \in DOMAIN mgr, outcome \in {"loadFails", "ok"} : Initialize(o, outcome)
  \/ \E o \in DOMAIN mgr, script \in InstallScripts : InstallPackagesStart(o, script)
  \/ \E c \in DOMAIN calls, ok \in BOOLEAN : NativeSettles(c, ok)
  \/ \E c \in DOMAIN calls, ok \in BOOLEAN : DownloadSettles(c, ok)
  \/ InstallPackagesJoin

SpecInstallJoin == InitCommon /\ [][NextInstallJoin]_vars

----------------------------------------------------------------------------
(* The fallback and what it fetches *)

\* C31: an install whose fallback finds the wheel of its package in the
\* cache directory already does not download it again.
C31_CachedWheelReused ==
  [][\A p \in {<<"o", "s">>, <<"p", "a", "t", "h", "l", "i", "b">>} :
       (/\ last'.op = "installPackage" /\ last'.run = "returned"
        /\ ~last'.result.isError
        /\ WheelPath(cwd, p) \in hostDirs)
         => ~Includes(last'.result.text, <<"D", "o", "w", "n", "l", "o", "a", "d", "i",
                                           "n", "g", " ", "w", "h", "e", "e", "l", " ",
                                           "f", "o", "r", " ">> \o p)]_vars

\* C32: one run of installPackage or of installPackages calls
\* loadPackage("micropip") at most once.
C32_InstallerLoadedOnce ==
  last.op \in {"installPackage", "installPackages"} => last.loads <= 1

----------------------------------------------------------------------------
(* What a script leaves behind *)

\* C33: a successful executePython leaves none of the names the script has
\* bound (the cleanup's own `import gc` alone is bound), and a script that
\* reads such a name right after a successful run finds it undefined.
C33_CleanupAfterSuccess ==
  [][/\ (last'.op = "executePython" /\ ~last'.result.isError /\ last'.ran > 0)
          => mgr'[last'.obj].pyodide.globals = {"gc"}
     /\ (/\ last.op = "executePython" /\ ~last.result.isError /\ last.ran > 0
         /\ last'.op = "executePython" /\ last'.obj = last.obj
         /\ last'.code = ScriptText(<<StmtName>>))
          => /\ last'.result.isError
             /\ Includes(last'.result.text, NameError)]_vars

\* The script x=1 has run with success and its name is gone.
C33_Witness ==
  /\ last.op = "executePython" /\ last.code = ScriptText(<<StmtBind>>)
  /\ ~last.result.isError /\ last.ran = 1
  /\ "x" \notin mgr[last.obj].pyodide.globals

----------------------------------------------------------------------------
(* Installation after the bootstrap *)

\* C34: on a manager whose initialize has succeeded, installPackage fails
\* with "Package installation disabled" and loads, downloads and installs
\* nothing.
C34_InstallDisabledAfterBootstrap ==
  (/\ last.op = "installPackage"
   /\ mgr[last.obj].ready)
    => /\ last.run = "thrown" \/ last.result.isError
       /\ Includes(last.result.text, <<"P", "a", "c", "k", "a", "g", "e", " ", "i",
                                       "n", "s", "t", "a", "l", "l", "a", "t", "i",
                                       "o", "n", " ", "d", "i", "s", "a", "b", "l",
                                       "e", "d">>)
       /\ last.ran = 0
       /\ last.loads = 0

----------------------------------------------------------------------------
(* The rule of the mount validation *)

SidRootfs == <<"r", "o", "o", "t", "f", "s">>
SidDotted == <<"a", ".", ".", "b">>

\* Session ids a client may send: a plain one, one that begins with the
\* word root, and one with two dots inside a name.
MountRuleSessionIds == {SidA, SidRootfs, SidDotted, SidEscape}

NextMountRule ==
  \/ \E s \in MountRuleSessionIds : GetInstance(s)
  \/ \E o \in DOMAIN mgr, outcome \in {"loadFails", "ok"} : Initialize(o, outcome)
  \/ \E o \in DOMAIN mgr, hostFail \in BOOLEAN, fsFail \in FsFailPoints :
       MountDirectory(o, hostFail, fsFail)

SpecMountRule == InitCommon /\ [][NextMountRule]_vars

\* C35: mountDirectory on a manager with an interpreter refuses the mount in
\* its validation exactly when the resolved session path or the base host
\* path starts with /etc, starts with /root or contains "../"; a mount of
\* paths that do none of these passes the validation, and every mount that
\* returned true was of such paths.
C35_ValidationRuleExact ==
  (last.op = "mountDirectory" /\ mgr[last.obj].pyodide # NoPy)
    => LET abs == absolutePathWithSessionId(cwd, mgr[last.obj])
           denied == DeniedPath(abs) \/ DeniedPath(hostPath)
       IN /\ mountRejects(abs, hostPath) <=> denied
          /\ last.ret = TRUE => ~denied

----------------------------------------------------------------------------
(* The import scan, line by line *)

\* The first index from i on that holds no character of set.
FirstNot(s, i, set) ==
  LET js == {j \in i..(Len(s) + 1) : j = Len(s) + 1 \/ s[j] \notin set}
  IN CHOOSE j \in js : \A k \in js : j <= k

\* The lines of a text.
Lines(s) ==
  LET starts == {p \in 1..(Len(s) + 1) : p = 1 \/ s[p - 1] = "\n"}
      ends(p) == {j \in p..(Len(s) + 1) : j = Len(s) + 1 \/ s[j] = "\n"}
      EndOf(p) == CHOOSE j \in ends(p) : \A k \in ends(p) : j <= k
  IN {[start |-> p, text |-> SubSeq(s, p, EndOf(p) - 1)] : p \in starts}

\* The identifier a line imports: the line is blanks, then import or from,
\* then blanks, then the identifier; <<>> for any other line.
ImportedOn(line) ==
  LET blank == {" ", "\t"}
      i1 == FirstNot(line, 1, blank)
      n == IF HasAt(line, i1, <<"i", "m", "p", "o", "r", "t">>) THEN 6
           ELSE IF HasAt(line, i1, <<"f", "r", "o", "m">>) THEN 4 ELSE 0
      i3 == FirstNot(line, i1 + n, blank)
      i4 == FirstNot(line, i3, IdChar)
  IN IF n > 0 /\ i3 > i1 + n /\ i3 <= Len(line) /\ line[i3] \in IdStart
       THEN SubSeq(line, i3, i4 - 1) ELSE <<>>

\* The line on which a name is first imported, 0 if on none.
FirstLineOf(s, name) ==
  LET ps == {l.start : l \in {k \in Lines(s) : ImportedOn(k.text) = name}}
  IN IF ps = {} THEN 0 ELSE CHOOSE p \in ps : \A q \in ps : p <= q

\* C37: the list extractPythonPackages returns for the script handed to
\* installPackages has no name twice, holds exactly the names that stand
\* after import or from at the beginning of a line of the script, and holds
\* them in the order of the lines on which each first stands.
C37_ImportScan ==
  last.op = "installPackages"
    => LET got == extractPythonPackages(last.code) IN
       /\ \A i, j \in DOMAIN got : got[i] = got[j] => i = j
       /\ {got[i] : i \in DOMAIN got}
            = {ImportedOn(l.text) : l \in Lines(last.code)} \ {<<>>}
       /\ \A i, j \in DOMAIN got :
            i < j => FirstLineOf(last.code, got[i]) < FirstLineOf(last.code, got[j])

\* A script with a comment that names an import and a line that imports:
\* only the line counts.
C37_Witness ==
  /\ last.op = "installPackages"
  /\ last.code = ScriptText(<<StmtCommentImport, StmtImportJson>>)
  /\ extractPythonPackages(last.code) = <<<<"j", "s", "o", "n">>>>

----------------------------------------------------------------------------
(* runCode against every kind of worker *)

\* A message of the worker that is not its response.
EvOther == [ev |-> "message", cmd |-> "progress", result |-> NoResult, code |-> 0]

\* The worker posts a message other than its response and then posts
\* nothing more.
WorkerPostsOther(c) ==
  /\ c \in DOMAIN calls
  /\ calls[c].thread = "started"
  /\ calls' = [calls EXCEPT ![c].thread = "silent", ![c].events = <<EvOther>>]
  /\ UNCHANGED <<cwd, hostDirs, instances, mgr, last>>

NextSettle ==
  \/ \E req \in Requests : CallTool(req)
  \/ \E c \in CallSlots, fault \in Faults, net \in NetOutcomes :
       WorkerRun(c, fault, net)
  \/ \E c \in CallSlots : WorkerPostsOther(c)
  \/ \E c \in CallSlots : Deliver(c)
  \/ \E c \in CallSlots : TimerFires(c)

SpecSettle == InitCommon /\ [][NextSettle]_vars

\* The timer of every call in flight fires.
FairSpecSettle == SpecSettle /\ \A c \in CallSlots : WF_vars(TimerFires(c))

\* C36: every runCode call in flight is eventually over, with its caller
\* answered, whatever its worker does: respond, throw, exit with code 0 or 1
\* without a response, never post, or post only another message.
C36_RunCodeSettles ==
  \A c \in CallSlots : (c \in DOMAIN calls) ~> (c \notin DOMAIN calls)

\* The worker of a call has posted only a message other than the response,
\* the listener has seen it and the call is still pending: only the timer
\* is left to end it.
C36_Witness ==
  \E c \in DOMAIN calls :
    /\ calls[c].thread = "silent"
    /\ calls[c].events = <<>>
    /\ calls[c].worker = "running"

----------------------------------------------------------------------------
(* The SSE server: the table of transports and the routing of messages     *)

\* The session ids the transports give themselves.
SseSessionIds == {<<"s", "1">>, <<"s", "2">>}

\* Names every object inherits from Object.prototype.
ObjectPrototypeNames == {<<"c", "o", "n", "s", "t", "r", "u", "c", "t", "o", "r">>,
    <<"t", "o", "S", "t", "r", "i", "n", "g">>}

\* req.query.sessionId: absent, empty, the id of a transport, or any other
\* text the client writes.
QuerySessionIds ==
  SseSessionIds \cup ObjectPrototypeNames \cup {Missing, <<>>, <<"s", "9">>}

\* Under this section `calls` holds the SSE connections made so far, by
\* session id: the transport, whether the table holds it, and the state of
\* the response stream.
Connection(sid) == [transport |-> <<sid, 1>>, registered |-> TRUE, res |-> "open"]

\* const transports: Record<string, SSEServerTransport> = {}: the own
\* properties of the table.
transports ==
  [s \in {k \in DOMAIN calls : calls[k].registered} |-> calls[s].transport]

\* transports[sessionId]: an own property, else what Object.prototype
\* holds under the name, else undefined.
getProperty(table, key) ==
  IF key \in DOMAIN table THEN [kind |-> "transport", of |-> table[key]]
  ELSE IF key \in ObjectPrototypeNames THEN [kind |-> "inherited", of |-> NoObj]
  ELSE [kind |-> "undefined", of |-> NoObj]

\* delete transports[sessionId]
deleteTransport(conns, sid) ==
  IF sid \in DOMAIN conns THEN [conns EXCEPT ![sid].registered = FALSE] ELSE conns

\* GET /sse: the transport is made with an id of its own, put in the table
\* and connected, and the listeners of its close are set.
GetSse(sid) ==
  /\ sid \in SseSessionIds \ DOMAIN calls
  /\ calls' = [s \in DOMAIN calls \cup {sid} |->
                 IF s = sid THEN Connection(sid) ELSE calls[s]]
  /\ last' = Observe("getSse", sid, <<sid, 1>>, TRUE)
  /\ UNCHANGED <<cwd, hostDirs, instances, mgr>>

\* transport.close(): the response is ended and onclose runs.
TransportClose(sid) ==
  /\ sid \in DOMAIN calls
  /\ calls[sid].res = "open"
  /\ calls' = deleteTransport([calls EXCEPT ![sid].res = "ended"], sid)
  /\ last' = Observe("transportClose", sid, calls[sid].transport, TRUE)
  /\ UNCHANGED <<cwd, hostDirs, instances, mgr>>

\* The close event of the response: the listener of the transport runs
\* onclose, then the listener of the handler deletes the entry again.
ResClose(sid) ==
  /\ sid \in DOMAIN calls
  /\ calls[sid].res \in {"open", "ended"}
  /\ calls' = deleteTransport(deleteTransport([calls EXCEPT ![sid].res = "closed"], sid),
                              sid)
  /\ last' = Observe("resClose", sid, calls[sid].transport, TRUE)
  /\ UNCHANGED <<cwd, hostDirs, instances, mgr>>

\* POST /messages?sessionId=...: the status of the answer in `note`, the
\* transport whose handlePostMessage was called in `obj`.
PostMessages(sessionId, throws) ==
  /\ LET transport == getProperty(transports, sessionId) IN
     last' =
       IF sessionId \in {Missing, <<>>}
         THEN [Observe("postMessages", sessionId, NoObj, FALSE) EXCEPT !.note = "400"]
       ELSE IF transport.kind = "undefined"
         THEN [Observe("postMessages", sessionId, NoObj, FALSE) EXCEPT !.note = "404"]
       ELSE IF transport.kind = "inherited"
         THEN [Observe("postMessages", sessionId, NoObj, FALSE)
                 EXCEPT !.note = "500", !.run = "thrown"]
       ELSE IF throws
         THEN [Observe("postMessages", sessionId, transport.of, FALSE)
                 EXCEPT !.note = "500", !.run = "thrown"]
       ELSE [Observe("postMessages", sessionId, transport.of, TRUE)
               EXCEPT !.note = "202", !.run = "returned"]
  /\ UNCHANGED <<cwd, hostDirs, instances, mgr, calls>>

NextSse ==
  \/ \E sid \in SseSessionIds : GetSse(sid)
  \/ \E sid \in SseSessionIds : TransportClose(sid)
  \/ \E sid \in SseSessionIds : ResClose(sid)
  \/ \E sessionId \in QuerySessionIds, throws \in BOOLEAN :
       PostMessages(sessionId, throws)

SpecSse == InitCommon /\ [][NextSse]_vars

\* C38: the table holds only transports whose connection is open; a POST
\* without a session id is answered 400 and one with an id the table does
\* not hold is answered 404, both with no transport called; a POST with a
\* registered id reaches the transport registered under that id and no
\* other.
C38_MessageRouting ==
  /\ \A s \in DOMAIN transports : calls[s].res = "open"
  /\ last.op = "postMessages"
       => /\ last.sid \in {Missing, <<>>} => (last.note = "400" /\ last.obj = NoObj)
          /\ (last.sid \notin {Missing, <<>>} /\ last.sid \notin DOMAIN transports)
               => (last.note = "404" /\ last.obj = NoObj)
          /\ last.sid \in DOMAIN transports => last.obj = transports[last.sid]

=============================================================================
